---- MODULE Spec2Model ----
(***************************************************************************)
(* A model of the IDisposable dispatch engine of src/src/ts/index.ts:      *)
(* dispose, tryDispose, disposeAsync, tryDisposeAsync, isDisposed and      *)
(* ignoreError, run over a fixed heap of candidate values.                 *)
(*                                                                         *)
(* A call is a frame: the instances queue, the loop index i, the seen set  *)
(* and (async variants) the promises list.  The for loop of a call runs    *)
(* synchronously: while a frame is in its loop no promise settles and no   *)
(* promise reaction runs.  Pending candidates are Promises/A+ thenables:   *)
(* a callback handed to then() runs as a separate job, never inside the    *)
(* call of then().                                                         *)
(***************************************************************************)
EXTENDS Integers, Sequences, FiniteSets, TLC

\* Greatest number of top-level arguments of a call.
MaxArgs == 2

\* Greatest number of dispatch calls a caller makes one after the other.
MaxCalls == 2

NoError == "none"

------------------------------------------------------------------------------
(* The heap: the candidate values a call can meet.                          *)

\* Error values: E1, E2, E3 are Error objects, ENull is a thrown null or
\* undefined.  E2 is frozen (Object.freeze): no property can be added to it.
\* EF is the Error object a functor handed to using or usingAsync raises.
\* ECallback is what a throwing onIgnoredError callback raises.
Errors == {"E1", "E2", "E3", "EF", "ENull", "ECallback"}

Extensible(error) == error \in {"E1", "E3", "EF"}

\* Promises returned by release capabilities.
ReleasePromises == {"r1", "r2", "r3"}

\* Pending candidates: p and pr are promises; it is a thenable that is also
\* iterable, ct a function that also has a then method.
PendingCandidates == {"p", "pr", "it", "ct"}

\* Promises returned by the functor of using and usingAsync.
FunctorPromises == {"fp", "fq"}

Promises == ReleasePromises \cup PendingCandidates \cup FunctorPromises

Values ==
  {"null", "undef", "prim", "plain",
   "a", "b", "ab", "dc", "t1", "t2", "tn", "rp", "rr", "x", "xf", "xt", "q",
   "s1", "s2", "sq", "sp", "f", "ft", "set", "dm", "dcl", "res",
   "fu", "fs", "fd", "sc", "sh", "own", "part", "xu", "xz", "rq"} \cup Promises

\* null and undefined.
Nullish == {"null", "undef"}

\* The values a caller passes as top-level arguments.
Roots ==
  {"null", "a", "t1", "t2", "tn", "rp", "rr", "x", "s1", "sq", "f", "ft", "p", "pr", "set",
   "sc", "sh"}

\* typeof instance
TypeOf(v) ==
  CASE v \in {"prim", "res"} -> "number"
    [] v = "undef" -> "undefined"
    [] v \in {"f", "ft", "fu", "fs", "fd", "ct"} -> "function"
    [] OTHER -> "object"

\* The function-valued properties of a value, among those the engine probes.
Methods(v) ==
  CASE v \in {"a", "t1", "tn", "rp", "rq", "x", "xf", "xt", "xu", "xz", "q", "fd", "own",
              "part"} ->
         {"dispose"}
    [] v \in {"b", "rr"} -> {"destroy"}
    [] v = "ab" -> {"dispose", "destroy"}
    [] v = "dc" -> {"delete", "close"}
    [] v = "t2" -> {"close"}
    [] v \in {"s1", "s2", "sq", "sp", "sc", "sh"} -> {"iterator"}
    [] v = "it" -> {"iterator", "then"}
    [] v = "set" -> {"delete", "iterator"}
    [] v = "dm" -> {"delete"}
    [] v = "dcl" -> {"delete", "close"}
    [] v \in Promises \ {"it"} -> {"then"}
    [] OTHER -> {}

\* instance.delete.length: set is a Set (delete(value)), dm and dcl declare
\* delete(key); every other delete takes no parameter.
DeleteLength(v) == IF v \in {"set", "dm", "dcl"} THEN 1 ELSE 0

\* The elements an iterable yields, in order.
Elements(v) ==
  CASE v = "s1" -> <<"a", "s2", "null", "a", "prim", "ab">>
    [] v = "s2" -> <<"b", "a", "s1", "plain", "xf", "dc">>
    [] v = "sq" -> <<"q", "b">>
    [] v = "sp" -> <<"a", "p">>
    [] v = "set" -> <<"dm", "dcl", "b">>
    [] v = "sc" -> <<"sc", "fs", "fu", "plain", "f", "own", "part", "f">>
    [] v = "sh" -> <<"it", "ct", "fd", "xt">>
    [] v = "it" -> <<"a">>
    [] OTHER -> <<>>

\* What calling a function value does: return a value or throw.
CallResult(v) ==
  CASE v = "f" -> [kind |-> "return", val |-> "sp", err |-> NoError]
    [] v = "ft" -> [kind |-> "throw", val |-> "null", err |-> "E2"]
    [] v = "fu" -> [kind |-> "return", val |-> "undef", err |-> NoError]
    [] v = "fs" -> [kind |-> "return", val |-> "fs", err |-> NoError]
    [] v = "ct" -> [kind |-> "return", val |-> "b", err |-> NoError]
    [] OTHER -> [kind |-> "return", val |-> "null", err |-> NoError]

\* What the release capability of a value does when invoked: return
\* undefined, throw, or return a promise.
ReleaseResult(v) ==
  CASE v \in {"t1", "t2", "x", "xf", "xt"} -> [kind |-> "throw", err |-> "E1", p |-> "null"]
    [] v = "tn" -> [kind |-> "throw", err |-> "ENull", p |-> "null"]
    [] v = "rp" -> [kind |-> "promise", err |-> NoError, p |-> "r1"]
    [] v = "rr" -> [kind |-> "promise", err |-> NoError, p |-> "r2"]
    [] v = "rq" -> [kind |-> "promise", err |-> NoError, p |-> "r3"]
    [] OTHER -> [kind |-> "return", err |-> NoError, p |-> "null"]

\* How a promise settles once it does.
Fate(pm) ==
  CASE pm = "r1" -> [kind |-> "fulfil", val |-> "null", err |-> NoError]
    [] pm = "r2" -> [kind |-> "reject", val |-> "null", err |-> "E2"]
    [] pm = "r3" -> [kind |-> "reject", val |-> "null", err |-> "E1"]
    [] pm = "p" -> [kind |-> "fulfil", val |-> "b", err |-> NoError]
    [] pm = "pr" -> [kind |-> "reject", val |-> "null", err |-> "E1"]
    [] pm = "fp" -> [kind |-> "fulfil", val |-> "res", err |-> NoError]
    [] pm = "fq" -> [kind |-> "reject", val |-> "null", err |-> "EF"]
    [] OTHER -> [kind |-> "fulfil", val |-> "null", err |-> NoError]

\* instance.isDisposed: absent, a boolean property, a number property (0 or
\* 1), a method that returns, or a method that throws.
IsDisposedKind(v) ==
  CASE v \in {"x", "part"} -> "property"
    [] v \in {"xt", "xz"} -> "number"
    [] v \in {"xf", "xu"} -> "method"
    [] v = "q" -> "throws"
    [] OTHER -> "absent"

ProbeError(v) == "E3"

\* The values whose isDisposed reports true before any call.
InitiallyDisposed == {"x", "xf", "xt"}

\* The values a release of v marks as disposed: own.dispose() releases its
\* part too, which sets part.isDisposed.
Marks(v) == IF v = "own" THEN {"part"} ELSE {}

FnNames == {"dispose", "tryDispose", "disposeAsync", "tryDisposeAsync"}
SyncFns == {"dispose", "tryDispose"}
TryFns == {"tryDispose", "tryDisposeAsync"}

\* The callbacks onIgnoredError can hold: the default empty function, one
\* that records the error and returns, one that records it and throws.
Callbacks == {"empty", "log", "throwing"}

\* The functions handed to using and usingAsync as functor: one returns a
\* number, one throws EF, one returns a promise that fulfils with that
\* number, one returns a promise that rejects with EF.
FunctionFunctors == {"fv", "fthrow", "fpend", "frej"}

\* usingAsync also takes a promise in the place of the functor.
Functors == FunctionFunctors \cup {"fp"}

\* functor.call(instance, instance)
FunctorResult(g) ==
  CASE g = "fv" -> [kind |-> "return", val |-> "res", err |-> NoError]
    [] g = "fthrow" -> [kind |-> "throw", val |-> "null", err |-> "EF"]
    [] g = "fpend" -> [kind |-> "return", val |-> "fp", err |-> NoError]
    [] g = "frej" -> [kind |-> "return", val |-> "fq", err |-> NoError]

------------------------------------------------------------------------------
VARIABLES
  onIgnoredError,  \* the module-wide callback: "empty" or a user callback
  frames,          \* the calls: frames[1] is the top-level call
  mark,            \* the values whose isDisposed currently reports true
  pstate,          \* the state of every promise of the heap
  reactions,       \* the then() registrations made so far
  log,             \* the release capabilities and factories invoked, in order
  reported,        \* the errors handed to the onIgnoredError callback, in order
  marked,          \* the errors carrying symErrorIgnored
  thrown,          \* the errors raised so far, in order: by whom, in a loop
                   \* or in a promise job, caught by the engine or not
  scope,           \* the running call of using or usingAsync, if any
  calls,           \* the dispatch calls made so far, in order: entry point,
                   \* arguments, and the length of log at entry
  answer           \* the last call of a predicate (isDisposable, isDisposed,
                   \* throwIfDisposed): its arguments and its outcome

vars ==
  <<onIgnoredError, frames, mark, pstate, reactions, log, reported, marked, thrown,
    scope, calls, answer>>

NoResult == [kind |-> "none", err |-> NoError]

NoOutcome == [kind |-> "none", val |-> "null", err |-> NoError]

\* No call of using or usingAsync is running.
NoScope ==
  [fn |-> "none", instance |-> "null", functor |-> "none", pc |-> "idle",
   held |-> "null", given |-> "none", waits |-> "null", out |-> NoOutcome,
   result |-> NoOutcome]

\* No predicate has been called.
NoAnswer == [fn |-> "none", value |-> "null", name |-> "undefined", kind |-> "none",
             val |-> <<>>]

NewFrame(fn, args) ==
  [fn |-> fn, args |-> args, instances |-> args, i |-> 1, seen |-> {}, promises |-> <<>>,
   pc |-> "loop", result |-> NoResult, failed |-> NoError]

Init ==
  /\ onIgnoredError = "empty"
  /\ frames = <<>>
  /\ mark = InitiallyDisposed
  /\ pstate = [pm \in Promises |-> IF pm \in PendingCandidates THEN "pending" ELSE "unborn"]
  /\ scope = NoScope
  /\ calls = <<>>
  /\ answer = NoAnswer
  /\ reactions = <<>>
  /\ log = <<>>
  /\ reported = <<>>
  /\ marked = {}
  /\ thrown = <<>>

------------------------------------------------------------------------------
(* Pure helpers of the engine.                                              *)

\* typeof item === 'function' || (typeof item === 'object' && item !== null)
IsCandidate(v) == TypeOf(v) = "function" \/ (TypeOf(v) = "object" /\ v # "null")

\* A variant of isDisposable without the typeof test.
isDisposableAnyType(v) ==
  /\ v \notin Nullish
  /\ \/ "dispose" \in Methods(v)
     \/ "destroy" \in Methods(v)
     \/ "close" \in Methods(v)
     \/ ("delete" \in Methods(v) /\ DeleteLength(v) = 0)

\* isDisposable(instance)
isDisposable(v) ==
  /\ v # "null"
  /\ TypeOf(v) = "object"
  /\ \/ "dispose" \in Methods(v)
     \/ "destroy" \in Methods(v)
     \/ "close" \in Methods(v)
     \/ ("delete" \in Methods(v) /\ DeleteLength(v) = 0)

\* A variant of isDisposed that tests for null and undefined only.
isDisposedNullOnly(v) == v \in Nullish

\* The value of instance.isDisposed now.
IsDisposedValue(v) ==
  CASE IsDisposedKind(v) = "absent" -> "undefined"
    [] IsDisposedKind(v) = "property" -> IF v \in mark THEN "true" ELSE "false"
    [] IsDisposedKind(v) = "number" -> IF v \in mark THEN "one" ELSE "zero"
    [] OTHER -> "function"

\* What instance.isDisposed() returns now: xf returns a number, 1 or 0.
ProbeReturn(v) ==
  IF v = "xf" THEN (IF v \in mark THEN "one" ELSE "zero")
  ELSE (IF v \in mark THEN "true" ELSE "false")

\* JavaScript truthiness of the values above.
Truthy(val) == val \in {"true", "one", "function"}

\* A variant of isDisposed that takes the boolean true only.
isDisposedStrict(v) ==
  IF v \in Nullish THEN TRUE
  ELSE IF IsDisposedValue(v) = "function" THEN ProbeReturn(v) = "true"
  ELSE IsDisposedValue(v) = "true"

\* isDisposed(instance) when the probe returns.
isDisposed(v) ==
  IF v \in Nullish THEN TRUE
  ELSE IF Truthy(IsDisposedValue(v))
       THEN (IF IsDisposedValue(v) # "function" THEN TRUE ELSE Truthy(ProbeReturn(v)))
       ELSE FALSE

\* isDisposed(instance) raises: instance.isDisposed is a function that throws.
isDisposedThrows(v) == v \notin Nullish /\ IsDisposedKind(v) = "throws"

\* A variant of the chain that tests destroy before dispose.
CapabilityDestroyFirst(v) ==
  IF "destroy" \in Methods(v) THEN "destroy"
  ELSE IF "dispose" \in Methods(v) THEN "dispose"
  ELSE IF "delete" \in Methods(v) /\ DeleteLength(v) = 0 THEN "delete"
  ELSE IF "close" \in Methods(v) THEN "close"
  ELSE "none"

\* A variant of the chain that takes any delete method.
CapabilityAnyDelete(v) ==
  IF "dispose" \in Methods(v) THEN "dispose"
  ELSE IF "destroy" \in Methods(v) THEN "destroy"
  ELSE IF "delete" \in Methods(v) THEN "delete"
  ELSE IF "close" \in Methods(v) THEN "close"
  ELSE "none"

\* The release capability the if/else chain of a dispatch loop picks.
Capability(v) ==
  IF "dispose" \in Methods(v) THEN "dispose"
  ELSE IF "destroy" \in Methods(v) THEN "destroy"
  ELSE IF "delete" \in Methods(v) /\ DeleteLength(v) = 0 THEN "delete"
  ELSE IF "close" \in Methods(v) THEN "close"
  ELSE "none"

\* A variant of the branches that calls whatever has no other shape.
ShapeCallsOpaque(fn, v) ==
  IF fn \in SyncFns
  THEN IF "iterator" \in Methods(v) THEN "sequence"
       ELSE IF TypeOf(v) = "function" THEN "factory"
       ELSE IF "then" \in Methods(v) THEN "pending"
       ELSE "factory"
  ELSE IF "then" \in Methods(v) THEN "pending"
       ELSE IF "iterator" \in Methods(v) THEN "sequence"
       ELSE IF TypeOf(v) = "function" THEN "factory"
       ELSE "factory"

\* A variant where the asynchronous loops do not iterate sequences.
ShapeAsyncFlat(fn, v) ==
  IF fn \in SyncFns
  THEN IF "iterator" \in Methods(v) THEN "sequence"
       ELSE IF TypeOf(v) = "function" THEN "factory"
       ELSE IF "then" \in Methods(v) THEN "pending"
       ELSE "opaque"
  ELSE IF "then" \in Methods(v) THEN "pending"
       ELSE IF TypeOf(v) = "function" THEN "factory"
       ELSE "opaque"

\* The branch taken by a value with no release capability: the synchronous
\* loops test the iterator, then the function, then then(); the asynchronous
\* loops test then(), then the iterator, then the function.
Shape(fn, v) ==
  IF fn \in SyncFns
  THEN IF "iterator" \in Methods(v) THEN "sequence"
       ELSE IF TypeOf(v) = "function" THEN "factory"
       ELSE IF "then" \in Methods(v) THEN "pending"
       ELSE "opaque"
  ELSE IF "then" \in Methods(v) THEN "pending"
       ELSE IF "iterator" \in Methods(v) THEN "sequence"
       ELSE IF TypeOf(v) = "function" THEN "factory"
       ELSE "opaque"

\* The enqueue closure: push item unless it is no object, seen or disposed.
\* The probe runs last and may throw; err then holds what it threw.
enqueue(instances, seen, item) ==
  IF IsCandidate(item) /\ item \notin seen
  THEN IF isDisposedThrows(item)
       THEN [instances |-> instances, err |-> ProbeError(item)]
       ELSE IF ~isDisposed(item)
            THEN [instances |-> Append(instances, item), err |-> NoError]
            ELSE [instances |-> instances, err |-> NoError]
  ELSE [instances |-> instances, err |-> NoError]

\* A variant of the for-of loop that takes the items from last to first.
RECURSIVE EnqueueAllReversed(_, _, _)
EnqueueAllReversed(instances, seen, items) ==
  IF items = <<>> THEN [instances |-> instances, err |-> NoError]
  ELSE LET r == enqueue(instances, seen, items[Len(items)])
       IN IF r.err # NoError THEN r
          ELSE EnqueueAllReversed(r.instances, seen, SubSeq(items, 1, Len(items) - 1))

\* for (const item of instance) enqueue(item): stops at the first throw.
RECURSIVE EnqueueAll(_, _, _)
EnqueueAll(instances, seen, items) ==
  IF items = <<>> THEN [instances |-> instances, err |-> NoError]
  ELSE LET r == enqueue(instances, seen, Head(items))
       IN IF r.err # NoError THEN r
          ELSE EnqueueAll(r.instances, seen, Tail(items))

\* A variant of ignoreError that never looks at the marker.
ignoreErrorNoMarker(error) ==
  IF error # "ENull" /\ onIgnoredError # "empty"
  THEN /\ reported' = Append(reported, error)
       /\ marked' = IF onIgnoredError = "log" /\ Extensible(error)
                     THEN marked \cup {error} ELSE marked
  ELSE UNCHANGED <<reported, marked>>

\* ignoreError(error): hand the error to the callback unless it carries the
\* marker, then set the marker.  The marker is not set when the callback
\* throws or when the error takes no new property; both are swallowed.
ignoreError(error) ==
  IF error # "ENull" /\ onIgnoredError # "empty" /\ error \notin marked
  THEN /\ reported' = Append(reported, error)
       /\ marked' = IF onIgnoredError = "log" /\ Extensible(error)
                     THEN marked \cup {error} ELSE marked
  ELSE UNCHANGED <<reported, marked>>

\* A variant of ignoreError without its try/catch: what the callback throws
\* leaves ignoreError.
EscapesUncaught(error) ==
  error # "ENull" /\ onIgnoredError = "throwing" /\ error \notin marked

\* Whether ignoreError(error) throws: its try/catch swallows what the
\* callback throws and what setting the marker throws.
Escapes(error) == FALSE

\* What a throwing callback throws.
CallbackError == "ECallback"

------------------------------------------------------------------------------
(* One iteration of a dispatch loop.                                        *)

Top == frames[1]

\* No synchronous code is running (no for loop, no call of using): promise
\* jobs and settlements may run.
NoSyncRunning ==
  /\ IF frames = <<>> THEN TRUE ELSE Top.pc # "loop"
  /\ ~(scope.fn = "using" /\ scope.pc # "done")

Reaction(src, k, kind) ==
  [src |-> src, frame |-> k, kind |-> kind, st |-> "waiting", err |-> NoError]

\* What an iteration changes besides the loop index and the seen set.
NoEffect(F) ==
  [instances |-> F.instances, promises |-> F.promises, log |-> log, mark |-> mark,
   pstate |-> pstate, reactions |-> reactions, detached |-> <<>>, err |-> NoError]

\* What each loop does with a promise returned by a release capability:
\* dispose drops it, tryDispose attaches ignoreError to it, disposeAsync
\* pushes it, tryDisposeAsync pushes result.then(empty, ignoreError).
Collect(F, eff, pm) ==
  LET n == Len(eff.reactions) + 1
  IN CASE F.fn = "dispose" -> eff
       [] F.fn = "tryDispose" ->
            [eff EXCEPT !.reactions = Append(@, Reaction(pm, 0, "forget"))]
       [] F.fn = "disposeAsync" ->
            [eff EXCEPT !.reactions = Append(@, Reaction(pm, 1, "raw")),
                        !.promises = Append(@, n)]
       [] F.fn = "tryDisposeAsync" ->
            [eff EXCEPT !.reactions = Append(@, Reaction(pm, 1, "ignore")),
                        !.promises = Append(@, n)]

\* instance.dispose() / destroy() / delete() / close()
Invoke(F, v, c) ==
  LET r == ReleaseResult(v)
      base == [NoEffect(F) EXCEPT !.log = Append(@, [obj |-> v, via |-> c]),
                                  !.mark = @ \cup Marks(v)]
  IN IF r.kind = "throw" THEN [base EXCEPT !.err = r.err]
     ELSE IF r.kind = "promise"
          THEN Collect(F, [base EXCEPT !.pstate[r.p] =
                             IF @ = "unborn" THEN "pending" ELSE @], r.p)
          ELSE base

\* for (const item of instance) enqueue(item)
Expand(F, v) ==
  LET r == EnqueueAll(F.instances, F.seen, Elements(v))
  IN [NoEffect(F) EXCEPT !.instances = r.instances, !.err = r.err]

\* A variant that calls the factory and drops what it returns.
CallFactoryDropsResult(F, v) ==
  LET c == CallResult(v)
      base == [NoEffect(F) EXCEPT !.log = Append(@, [obj |-> v, via |-> "call"])]
  IN IF c.kind = "throw" THEN [base EXCEPT !.err = c.err] ELSE base

\* enqueue(instance())
CallFactory(F, v) ==
  LET c == CallResult(v)
      base == [NoEffect(F) EXCEPT !.log = Append(@, [obj |-> v, via |-> "call"])]
  IN IF c.kind = "throw" THEN [base EXCEPT !.err = c.err]
     ELSE LET r == enqueue(F.instances, F.seen, c.val)
          IN [base EXCEPT !.instances = r.instances, !.err = r.err]

\* The frame of the tryDisposeAsync(instance) call a synchronous loop makes
\* for a pending candidate, after its own loop has run: the one instance is
\* seen, instance.then(enqueue, ignoreError) is registered as reaction n and
\* the frame waits in Promise.all.
DetachedFrame(v, n) ==
  [NewFrame("tryDisposeAsync", <<v>>) EXCEPT
     !.i = 2, !.seen = {v}, !.promises = <<n>>, !.pc = "await"]

\* A variant where the synchronous loops register enqueue on the candidate
\* themselves, as disposeAsync does.
PendingInline(F, v) ==
  LET n == Len(reactions) + 1
  IN [NoEffect(F) EXCEPT !.reactions = Append(@, Reaction(v, 1, "enqueue")),
                         !.promises = Append(@, n)]

\* The then() branch: the synchronous loops hand the candidate to a new
\* tryDisposeAsync call; the asynchronous loops register enqueue on it.
Pending(F, v) ==
  LET n == Len(reactions) + 1
      k == Len(frames) + 1
  IN CASE F.fn \in SyncFns ->
            [NoEffect(F) EXCEPT
               !.reactions = Append(@, Reaction(v, k, "enqueueIgnore")),
               !.detached = <<DetachedFrame(v, n)>>]
       [] F.fn = "disposeAsync" ->
            [NoEffect(F) EXCEPT !.reactions = Append(@, Reaction(v, 1, "enqueue")),
                                !.promises = Append(@, n)]
       [] F.fn = "tryDisposeAsync" ->
            [NoEffect(F) EXCEPT !.reactions = Append(@, Reaction(v, 1, "enqueueIgnore")),
                                !.promises = Append(@, n)]

\* The if/else chain of the loop body, for a candidate that is marked seen
\* and does not report isDisposed.
Dispatch(F, v) ==
  LET c == Capability(v)
      sh == Shape(F.fn, v)
  IN IF c # "none" THEN Invoke(F, v, c)
     ELSE CASE sh = "sequence" -> Expand(F, v)
            [] sh = "factory" -> CallFactory(F, v)
            [] sh = "pending" -> Pending(F, v)
            [] OTHER -> NoEffect(F)

\* A variant of the continue tests without the seen set.
SkipNoSeen(F, v) == ~IsCandidate(v)

\* The two continue tests before seen.add(instance).
Skip(F, v) == ~IsCandidate(v) \/ v \in F.seen

\* A variant of the loop body that does not test isDisposed at dispatch.
BodyNoRecheck(F, v) ==
  IF Skip(F, v) THEN NoEffect(F)
  ELSE Dispatch([F EXCEPT !.seen = @ \cup {v}], v)

\* The whole loop body for instances[i].
Body(F, v) ==
  IF Skip(F, v) THEN NoEffect(F)
  ELSE IF isDisposedThrows(v) THEN [NoEffect(F) EXCEPT !.err = ProbeError(v)]
  ELSE IF isDisposed(v) THEN NoEffect(F)
  ELSE Dispatch([F EXCEPT !.seen = @ \cup {v}], v)

\* Variants: every loop has the try/catch; only tryDispose has it.
CatchesAll(fn) == TRUE

CatchesSyncOnly(fn) == fn = "tryDispose"

\* Whether the loop of fn catches what its body throws.
Catches(fn) == fn \in TryFns

\* The frame after the body ran with effect eff.
AfterBody(F, v, eff) ==
  LET G == [F EXCEPT !.instances = eff.instances,
                     !.promises = eff.promises,
                     !.seen = IF Skip(F, v) THEN @ ELSE @ \cup {v}]
  IN IF eff.err = NoError \/ (Catches(F.fn) /\ ~Escapes(eff.err))
     THEN [G EXCEPT !.i = @ + 1]
     ELSE [G EXCEPT !.pc = "done",
                    !.result = [kind |-> IF F.fn \in SyncFns THEN "threw" ELSE "rejected",
                                err |-> IF Catches(F.fn) THEN CallbackError ELSE eff.err]]

Step ==
  /\ frames # <<>>
  /\ Top.pc = "loop"
  /\ Top.i <= Len(Top.instances)
  /\ LET F == Top
         v == F.instances[F.i]
         eff == Body(F, v)
     IN /\ frames' = <<AfterBody(F, v, eff)>> \o Tail(frames) \o eff.detached
        /\ log' = eff.log
        /\ mark' = eff.mark
        /\ pstate' = eff.pstate
        /\ reactions' = eff.reactions
        /\ thrown' = IF eff.err = NoError THEN thrown
                     ELSE Append(thrown, [by |-> v, err |-> eff.err, at |-> "loop",
                                          caught |-> Catches(F.fn)])
        /\ IF eff.err # NoError /\ Catches(F.fn)
           THEN ignoreError(eff.err)
           ELSE UNCHANGED <<reported, marked>>
  /\ UNCHANGED <<answer, onIgnoredError, scope, calls>>

\* The loop condition fails: a synchronous call returns, an asynchronous
\* call goes on to await Promise.all(promises).
LoopEnd ==
  /\ frames # <<>>
  /\ Top.pc = "loop"
  /\ Top.i > Len(Top.instances)
  /\ frames' = [frames EXCEPT ![1] =
                  IF Top.fn \in SyncFns
                  THEN [@ EXCEPT !.pc = "done", !.result = [kind |-> "returned", err |-> NoError]]
                  ELSE [@ EXCEPT !.pc = "await"]]
  /\ UNCHANGED <<answer, onIgnoredError, mark, pstate, reactions, log, reported, marked, thrown,
                 scope, calls>>

\* The record of a dispatch call: what it was given, and how long log (from)
\* and thrown (threw) were at its entry.
Entry(fn, args, from) == [fn |-> fn, args |-> args, from |-> from, threw |-> Len(thrown)]

\* A caller invokes one of the four entry points.
Call(fn, args) ==
  /\ frames = <<>>
  /\ scope = NoScope
  /\ frames' = <<NewFrame(fn, args)>>
  /\ calls' = Append(calls, Entry(fn, args, Len(log)))
  /\ UNCHANGED <<answer, onIgnoredError, mark, pstate, reactions, log, reported, marked, thrown,
                 scope>>

\* A variant where the set of seen instances outlives the call.
SeenKept(F) == F.seen

\* const seen = new Set(): what a call entered after the call F has seen.
SeenAtEntry(F) == {}

\* Nothing is running and nothing is left to run: every call has settled and
\* every registered reaction has run.
Idle ==
  /\ frames # <<>>
  /\ \A k \in 1..Len(frames) : frames[k].pc = "done"
  /\ \A j \in 1..Len(reactions) : reactions[j].st # "waiting"

\* A caller invokes an entry point again, after an earlier call and all it
\* started have finished.
CallAgain(fn, args) ==
  /\ Idle
  /\ scope = NoScope
  /\ Len(calls) < MaxCalls
  /\ frames' = <<[NewFrame(fn, args) EXCEPT !.seen = SeenAtEntry(Top)]>>
  /\ reactions' = <<>>
  /\ calls' = Append(calls, Entry(fn, args, Len(log)))
  /\ UNCHANGED <<answer, onIgnoredError, mark, pstate, log, reported, marked, thrown, scope>>

\* IDisposable.onIgnoredError = cb
SetOnIgnoredError(cb) ==
  /\ frames = <<>>
  /\ scope = NoScope
  /\ cb # onIgnoredError
  /\ onIgnoredError' = cb
  /\ UNCHANGED <<answer, frames, mark, pstate, reactions, log, reported, marked, thrown,
                 scope, calls>>

------------------------------------------------------------------------------
(* Promises: settlement, reaction jobs and the Promise.all join.            *)

\* usingAsync is suspended in an await of pm.
Awaits(pm) ==
  scope.fn = "usingAsync" /\ scope.pc \in {"instance", "factory", "functor"} /\ scope.waits = pm

\* A promise somebody waits on settles as its fate says.  A promise nobody
\* registered a reaction on is left alone: nothing reads its state.
Settle(pm) ==
  /\ NoSyncRunning
  /\ pstate[pm] = "pending"
  /\ \/ \E j \in 1..Len(reactions) : reactions[j].src = pm /\ reactions[j].st = "waiting"
     \/ Awaits(pm)
  /\ pstate' = [pstate EXCEPT ![pm] =
                  IF Fate(pm).kind = "fulfil" THEN "fulfilled" ELSE "rejected"]
  /\ UNCHANGED <<answer, onIgnoredError, frames, mark, reactions, log, reported, marked, thrown,
                 scope, calls>>

\* A variant where every pushed promise gets the ignoreError handler.
SwallowsAll(kind) == TRUE

\* A variant where no pushed promise gets the ignoreError handler.
SwallowsNone(kind) == FALSE

\* Reactions whose rejection handler is ignoreError never reject.
Swallows(kind) == kind \in {"ignore", "enqueueIgnore", "forget"}

\* The job of reaction j once its promise has settled:
\*   raw            promises.push(result)                      (disposeAsync)
\*   enqueue        instance.then(enqueue)                     (disposeAsync)
\*   ignore         result.then(empty, ignoreError)            (tryDisposeAsync)
\*   enqueueIgnore  instance.then(enqueue, ignoreError)
\*                          .then(empty, ignoreError)          (tryDisposeAsync)
\*   forget         result.then(empty, ignoreError)            (tryDispose)
React(j) ==
  /\ NoSyncRunning
  /\ reactions[j].st = "waiting"
  /\ pstate[reactions[j].src] \in {"fulfilled", "rejected"}
  /\ LET R == reactions[j]
         k == R.frame
         fate == Fate(R.src)
         ok == pstate[R.src] = "fulfilled"
         enqueues == ok /\ R.kind \in {"enqueue", "enqueueIgnore"}
         enq == IF enqueues
                THEN enqueue(frames[k].instances, frames[k].seen, fate.val)
                ELSE [instances |-> <<>>, err |-> NoError]
         err == IF ok THEN enq.err ELSE fate.err
         rejects == err # NoError /\ ~Swallows(R.kind)
     IN /\ reactions' = [reactions EXCEPT
                           ![j].st = IF rejects THEN "rejected" ELSE "fulfilled",
                           ![j].err = IF rejects THEN err ELSE NoError]
        /\ frames' = IF k = 0 THEN frames
                     ELSE [frames EXCEPT
                             ![k].instances = IF enqueues THEN enq.instances ELSE @,
                             ![k].failed = IF rejects /\ frames[k].pc = "await" /\ @ = NoError
                                           THEN err ELSE @]
        /\ thrown' = IF enqueues /\ enq.err # NoError
                     THEN Append(thrown, [by |-> fate.val, err |-> enq.err, at |-> "job",
                                          caught |-> Swallows(R.kind)])
                     ELSE thrown
        /\ IF err # NoError /\ Swallows(R.kind)
           THEN ignoreError(err)
           ELSE UNCHANGED <<reported, marked>>
  /\ UNCHANGED <<answer, onIgnoredError, mark, pstate, log, scope, calls>>

\* await Promise.all(promises): the call settles when every pushed promise
\* has fulfilled or as soon as one has rejected.  tryDisposeAsync catches a
\* rejection and hands it to ignoreError.
Join(k) ==
  /\ NoSyncRunning
  /\ frames[k].pc = "await"
  /\ LET F == frames[k]
         all == \A n \in 1..Len(F.promises) : reactions[F.promises[n]].st = "fulfilled"
     IN /\ F.failed # NoError \/ all
        /\ IF F.failed # NoError /\ F.fn = "disposeAsync"
           THEN frames' = [frames EXCEPT ![k].pc = "done",
                              ![k].result = [kind |-> "rejected", err |-> F.failed]]
           ELSE frames' = [frames EXCEPT ![k].pc = "done",
                              ![k].result = [kind |-> "fulfilled", err |-> NoError]]
        /\ IF F.failed # NoError /\ F.fn # "disposeAsync"
           THEN ignoreError(F.failed)
           ELSE UNCHANGED <<reported, marked>>
  /\ UNCHANGED <<answer, onIgnoredError, mark, pstate, reactions, log, thrown, scope, calls>>

------------------------------------------------------------------------------
(* using(instance, functor): synchronous from entry to return.              *)

\* A variant of using that releases fail-fast in its catch block too.
ReleasePathFailFast(caught) == "dispose"

\* A variant of using that releases best-effort in its try block too.
ReleasePathBestEffort(caught) == "tryDispose"

\* The entry point using releases through: dispose(instance) at the end of
\* its try block, tryDispose(instance) in its catch block.
ReleasePath(caught) == IF caught THEN "tryDispose" ELSE "dispose"

\* The promises a functor result brings to life.
Born(val) == IF val \in Promises THEN {val} ELSE {}

\* using is entered: the functor runs, then the try block goes on to
\* dispose(instance) or the catch block to tryDispose(instance).
Using(instance, functor) ==
  /\ frames = <<>>
  /\ scope = NoScope
  /\ LET r == FunctorResult(functor)
         caught == r.kind = "throw"
         path == ReleasePath(caught)
     IN /\ log' = Append(log, [obj |-> functor, via |-> "call"])
        /\ pstate' = [pm \in Promises |->
                        IF pm \in Born(r.val) /\ pstate[pm] = "unborn" THEN "pending"
                        ELSE pstate[pm]]
        /\ scope' = [NoScope EXCEPT !.fn = "using", !.instance = instance,
                                    !.functor = functor, !.held = instance,
                                    !.given = instance,
                                    !.pc = IF caught THEN "catch" ELSE "try",
                                    !.out = r]
        /\ frames' = <<NewFrame(path, <<instance>>)>>
        /\ calls' = Append(calls, Entry(path, <<instance>>, Len(log')))
  /\ UNCHANGED <<answer, onIgnoredError, mark, reactions, reported, marked, thrown>>

\* dispose(instance) threw inside the try block: the catch block runs
\* tryDispose(instance) with the error dispose threw.
UsingCatch ==
  /\ scope.fn = "using" /\ scope.pc = "try"
  /\ Top.pc = "done" /\ Top.result.kind = "threw"
  /\ LET path == ReleasePath(TRUE)
     IN /\ frames' = <<NewFrame(path, <<scope.instance>>)>> \o Tail(frames)
        /\ calls' = Append(calls, Entry(path, <<scope.instance>>, Len(log)))
  /\ scope' = [scope EXCEPT !.pc = "catch",
                            !.out = [kind |-> "throw", val |-> "null", err |-> Top.result.err]]
  /\ UNCHANGED <<answer, onIgnoredError, mark, pstate, reactions, log, reported, marked, thrown>>

\* return result at the end of the try block, or throw error at the end of
\* the catch block (or what the release in the catch block threw).
UsingReturn ==
  /\ scope.fn = "using"
  /\ Top.pc = "done"
  /\ scope.pc = "catch" \/ (scope.pc = "try" /\ Top.result.kind = "returned")
  /\ scope' = [scope EXCEPT
                 !.pc = "done",
                 !.result = IF scope.pc = "try"
                            THEN [kind |-> "returned", val |-> scope.out.val, err |-> NoError]
                            ELSE IF Top.result.kind = "threw"
                                 THEN [kind |-> "threw", val |-> "null", err |-> Top.result.err]
                                 ELSE [kind |-> "threw", val |-> "null", err |-> scope.out.err]]
  /\ UNCHANGED <<answer, onIgnoredError, frames, mark, pstate, reactions, log, reported, marked,
                 thrown, calls>>

------------------------------------------------------------------------------
(* usingAsync(instance, functor): an async function with four awaits.       *)

\* The awaited value is there: it is no promise, or the promise has settled.
Ready(v) == IF v \in Promises THEN pstate[v] \in {"fulfilled", "rejected"} ELSE TRUE

\* What await v evaluates to: the value, or a throw of the rejection reason.
Got(v) ==
  IF v \in Promises
  THEN IF pstate[v] = "fulfilled"
       THEN [kind |-> "return", val |-> Fate(v).val, err |-> NoError]
       ELSE [kind |-> "throw", val |-> "null", err |-> Fate(v).err]
  ELSE [kind |-> "return", val |-> v, err |-> NoError]

Rejected(error) == [kind |-> "rejected", val |-> "null", err |-> error]

\* usingAsync goes on with the scope sc, having invoked what entries lists
\* and brought the promises of born to life; when sc is in its finally
\* block it has called disposeAsync(instance).
Continue(sc, entries, born) ==
  /\ scope' = sc
  /\ log' = log \o entries
  /\ pstate' = [pm \in Promises |->
                  IF pm \in born /\ pstate[pm] = "unborn" THEN "pending" ELSE pstate[pm]]
  /\ IF sc.pc = "finally"
     THEN /\ frames' = <<NewFrame("disposeAsync", <<sc.held>>)>>
          /\ calls' = Append(calls, Entry("disposeAsync", <<sc.held>>, Len(log')))
     ELSE UNCHANGED <<frames, calls>>
  /\ UNCHANGED <<answer, onIgnoredError, mark, reactions, reported, marked, thrown>>

\* The finally block is entered with the outcome out of the try block.
Finally(sc, out) == [sc EXCEPT !.pc = "finally", !.out = out]

\* A variant that hands the functor the instance usingAsync was called with.
RunFunctorUnresolved(sc) ==
  IF sc.functor \in FunctionFunctors
  THEN LET r == FunctorResult(sc.functor)
           entries == <<[obj |-> sc.functor, via |-> "call"]>>
           run == [sc EXCEPT !.given = sc.instance]
       IN IF r.kind = "throw"
          THEN Continue(Finally(run, Rejected(r.err)), entries, {})
          ELSE Continue([run EXCEPT !.pc = "functor", !.waits = r.val], entries, Born(r.val))
  ELSE Continue([sc EXCEPT !.pc = "functor", !.waits = sc.functor], <<>>, Born(sc.functor))

\* The functor is invoked with the instance as this and as its argument
\* (scope.given), or awaited when it is a promise.
RunFunctor(sc) ==
  IF sc.functor \in FunctionFunctors
  THEN LET r == FunctorResult(sc.functor)
           entries == <<[obj |-> sc.functor, via |-> "call"]>>
           run == [sc EXCEPT !.given = sc.held]
       IN IF r.kind = "throw"
          THEN Continue(Finally(run, Rejected(r.err)), entries, {})
          ELSE Continue([run EXCEPT !.pc = "functor", !.waits = r.val], entries, Born(r.val))
  ELSE Continue([sc EXCEPT !.pc = "functor", !.waits = sc.functor], <<>>, Born(sc.functor))

\* usingAsync is entered and suspends in instance = await instance.
UsingAsync(instance, functor) ==
  /\ frames = <<>>
  /\ scope = NoScope
  /\ scope' = [NoScope EXCEPT !.fn = "usingAsync", !.instance = instance,
                              !.functor = functor, !.held = instance,
                              !.pc = "instance", !.waits = instance]
  /\ UNCHANGED <<answer, onIgnoredError, frames, mark, pstate, reactions, log, reported, marked,
                 thrown, calls>>

\* instance = await instance resumes: a function is invoked and awaited,
\* anything else is handed to the functor.
AfterInstance ==
  /\ scope.fn = "usingAsync" /\ scope.pc = "instance"
  /\ Ready(scope.waits)
  /\ LET got == Got(scope.waits)
         c == CallResult(got.val)
         entries == <<[obj |-> got.val, via |-> "call"]>>
     IN IF got.kind = "throw" THEN Continue(Finally(scope, Rejected(got.err)), <<>>, {})
        ELSE IF TypeOf(got.val) = "function"
             THEN IF c.kind = "throw"
                  THEN Continue(Finally([scope EXCEPT !.held = got.val], Rejected(c.err)),
                                entries, {})
                  ELSE Continue([scope EXCEPT !.held = got.val, !.pc = "factory",
                                              !.waits = c.val], entries, {})
             ELSE RunFunctor([scope EXCEPT !.held = got.val])

\* instance = await instance() resumes.
AfterFactory ==
  /\ scope.fn = "usingAsync" /\ scope.pc = "factory"
  /\ Ready(scope.waits)
  /\ LET got == Got(scope.waits)
     IN IF got.kind = "throw" THEN Continue(Finally(scope, Rejected(got.err)), <<>>, {})
        ELSE RunFunctor([scope EXCEPT !.held = got.val])

\* result = await ... resumes: return result, or the rejection propagates;
\* either way the finally block calls disposeAsync(instance).
AfterFunctor ==
  /\ scope.fn = "usingAsync" /\ scope.pc = "functor"
  /\ Ready(scope.waits)
  /\ LET got == Got(scope.waits)
     IN Continue(Finally(scope, IF got.kind = "throw" THEN Rejected(got.err)
                                ELSE [kind |-> "fulfilled", val |-> got.val, err |-> NoError]),
                 <<>>, {})

\* A variant where the finally block does not await disposeAsync(instance).
SettledOrAwaiting(F) == F.pc \in {"await", "done"}

\* The promise of the call F has settled.
Settled(F) == F.pc = "done"

\* await disposeAsync(instance) resumes: a rejection replaces the outcome of
\* the try block, else usingAsync settles with that outcome.
AfterRelease ==
  /\ scope.fn = "usingAsync" /\ scope.pc = "finally"
  /\ Settled(Top)
  /\ scope' = [scope EXCEPT
                 !.pc = "done",
                 !.result = IF Top.result.kind = "rejected"
                            THEN Rejected(Top.result.err)
                            ELSE scope.out]
  /\ UNCHANGED <<answer, onIgnoredError, frames, mark, pstate, reactions, log, reported, marked,
                 thrown, calls>>

------------------------------------------------------------------------------
(* The predicates: isDisposable, isDisposed, throwIfDisposed.               *)

\* The name argument of throwIfDisposed: omitted, the empty string, a name.
Names == {"undefined", "", "conn"}

\* instance.constructor && instance.constructor.name: xt is an instance of
\* an anonymous class, whose name is the empty string.
ConstructorName(v) ==
  CASE v = "xt" -> ""
    [] TypeOf(v) = "function" -> "Function"
    [] OTHER -> "Object"

\* a || b on strings: undefined and the empty string are falsy.
OrElse(a, b) == IF a \in {"undefined", ""} THEN b ELSE a

\* A variant of throwIfDisposed that does not use its name argument.
throwIfDisposedUnnamed(v, name) ==
  IF v = "null" THEN [kind |-> "TypeError", val |-> <<"null", "is null">>]
  ELSE IF v = "undef" THEN [kind |-> "TypeError", val |-> <<"undefined", "is undefined">>]
  ELSE IF isDisposedThrows(v) THEN [kind |-> "threw", val |-> <<ProbeError(v)>>]
  ELSE IF isDisposed(v)
       THEN [kind |-> "TypeError",
             val |-> <<OrElse(ConstructorName(v), "instance"), "is disposed">>]
       ELSE [kind |-> "returned", val |-> <<>>]

\* throwIfDisposed(instance, name): what it throws, with the subject and the
\* rest of the message, or that it returns.
throwIfDisposed(v, name) ==
  IF v = "null" THEN [kind |-> "TypeError", val |-> <<OrElse(name, "null"), "is null">>]
  ELSE IF v = "undef"
       THEN [kind |-> "TypeError", val |-> <<OrElse(name, "undefined"), "is undefined">>]
  ELSE IF isDisposedThrows(v) THEN [kind |-> "threw", val |-> <<ProbeError(v)>>]
  ELSE IF isDisposed(v)
       THEN [kind |-> "TypeError",
             val |-> <<OrElse(name, OrElse(ConstructorName(v), "instance")), "is disposed">>]
       ELSE [kind |-> "returned", val |-> <<>>]

Boolean(b) == IF b THEN <<"true">> ELSE <<"false">>

Unanswered ==
  UNCHANGED <<onIgnoredError, frames, mark, pstate, reactions, log, reported, marked,
              thrown, scope, calls>>

\* A call of isDisposable(instance).
CallIsDisposable(v) ==
  /\ answer' = [fn |-> "isDisposable", value |-> v, name |-> "undefined",
                kind |-> "returned", val |-> Boolean(isDisposable(v))]
  /\ Unanswered

\* A call of isDisposed(instance).
CallIsDisposed(v) ==
  /\ answer' = IF isDisposedThrows(v)
                THEN [fn |-> "isDisposed", value |-> v, name |-> "undefined",
                      kind |-> "threw", val |-> <<ProbeError(v)>>]
                ELSE [fn |-> "isDisposed", value |-> v, name |-> "undefined",
                      kind |-> "returned", val |-> Boolean(isDisposed(v))]
  /\ Unanswered

\* A call of throwIfDisposed(instance, name).
CallThrowIfDisposed(v, name) ==
  /\ answer' = [fn |-> "throwIfDisposed", value |-> v, name |-> name,
                kind |-> throwIfDisposed(v, name).kind,
                val |-> throwIfDisposed(v, name).val]
  /\ Unanswered

------------------------------------------------------------------------------
ArgLists == UNION {[1..n -> Roots] : n \in 1..MaxArgs}

Next ==
  \/ \E cb \in Callbacks : SetOnIgnoredError(cb)
  \/ \E fn \in FnNames, args \in ArgLists : Call(fn, args)
  \/ Step
  \/ LoopEnd
  \/ \E pm \in Promises : Settle(pm)
  \/ \E j \in 1..Len(reactions) : React(j)
  \/ \E k \in 1..Len(frames) : Join(k)

Spec == Init /\ [][Next]_vars

NextUsing ==
  \/ \E cb \in Callbacks : SetOnIgnoredError(cb)
  \/ \E instance \in Roots, functor \in FunctionFunctors : Using(instance, functor)
  \/ \E instance \in Roots, functor \in Functors : UsingAsync(instance, functor)
  \/ UsingCatch
  \/ UsingReturn
  \/ AfterInstance
  \/ AfterFactory
  \/ AfterFunctor
  \/ AfterRelease
  \/ Step
  \/ LoopEnd
  \/ \E pm \in Promises : Settle(pm)
  \/ \E j \in 1..Len(reactions) : React(j)
  \/ \E k \in 1..Len(frames) : Join(k)

SpecUsing == Init /\ [][NextUsing]_vars

\* The argument lists of the calls a caller repeats.
CallArgs ==
  {<<"a">>, <<"a", "a">>, <<"s1">>, <<"t1", "a">>, <<"x", "b">>, <<"rp">>, <<"ft", "a">>}

NextCalls ==
  \/ \E fn \in FnNames, args \in CallArgs : Call(fn, args)
  \/ \E fn \in FnNames, args \in CallArgs : CallAgain(fn, args)
  \/ Step
  \/ LoopEnd
  \/ \E pm \in Promises : Settle(pm)
  \/ \E j \in 1..Len(reactions) : React(j)
  \/ \E k \in 1..Len(frames) : Join(k)

SpecCalls == Init /\ [][NextCalls]_vars

\* Calls of the asynchronous entry points on objects whose release returns a
\* promise: that of rp fulfils, that of rr rejects with E2, that of rq with E1.
OverlapArgs ==
  {<<"rp", "rr">>, <<"rr", "rp">>, <<"rr", "rq">>, <<"rq", "rr">>, <<"rp", "rq">>}

NextOverlap ==
  \/ \E fn \in FnNames \ SyncFns, args \in OverlapArgs : Call(fn, args)
  \/ Step
  \/ LoopEnd
  \/ \E pm \in Promises : Settle(pm)
  \/ \E j \in 1..Len(reactions) : React(j)
  \/ \E k \in 1..Len(frames) : Join(k)

SpecOverlap == Init /\ [][NextOverlap]_vars

\* Best-effort calls repeated on the same arguments, with a callback set: t1
\* and t2 throw the same Error object E1 at every release, the release of rr
\* rejects with the frozen E2.
RepeatArgs == {<<"t1", "a">>, <<"t2">>, <<"rr">>, <<"a">>}

NextRepeat ==
  \/ \E cb \in Callbacks : SetOnIgnoredError(cb)
  \/ \E fn \in TryFns, args \in RepeatArgs : Call(fn, args)
  \/ \E fn \in TryFns, args \in RepeatArgs : CallAgain(fn, args)
  \/ Step
  \/ LoopEnd
  \/ \E pm \in Promises : Settle(pm)
  \/ \E j \in 1..Len(reactions) : React(j)
  \/ \E k \in 1..Len(frames) : Join(k)

SpecRepeat == Init /\ [][NextRepeat]_vars

\* The predicates, called on every value of the heap.
NextPredicates ==
  \/ \E v \in Values : CallIsDisposable(v)
  \/ \E v \in Values : CallIsDisposed(v)
  \/ \E v \in Values, name \in Names : CallThrowIfDisposed(v, name)

SpecPredicates == Init /\ [][NextPredicates]_vars

\* A step of a running call or of the promise machinery.
Progress ==
  \/ Step
  \/ LoopEnd
  \/ \E pm \in Promises : Settle(pm)
  \/ \E j \in 1..Len(reactions) : React(j)
  \/ \E k \in 1..Len(frames) : Join(k)

\* Calls on cyclic arguments: s1 and s2 contain each other, sc contains
\* itself and a function that returns itself.
CycleArgs == {<<"s1">>, <<"sc">>, <<"s1", "sc">>, <<"sc", "s1">>}

NextCycles ==
  \/ \E fn \in FnNames, args \in CycleArgs : Call(fn, args)
  \/ Step
  \/ LoopEnd
  \/ \E pm \in Promises : Settle(pm)
  \/ \E j \in 1..Len(reactions) : React(j)
  \/ \E k \in 1..Len(frames) : Join(k)

\* The loop of a call runs to completion, every promise job that is ready
\* runs, and every promise that is waited for settles.
SpecCycles == Init /\ [][NextCycles]_vars /\ WF_vars(Progress)

------------------------------------------------------------------------------
(* Vocabulary of the properties.                                            *)

Started == frames # <<>>

\* How many times a release capability of v was invoked.
Count(v) == Cardinality({n \in 1..Len(log) : log[n].obj = v /\ log[n].via # "call"})

\* v is an object or function exposing a release capability.
Releasable(v) ==
  /\ v \notin {"null", "prim"}
  /\ \/ Methods(v) \cap {"dispose", "destroy", "close"} # {}
     \/ ("delete" \in Methods(v) /\ DeleteLength(v) = 0)

\* v reports isDisposed, or is null or undefined.
ReportsDisposed(v) == v \in Nullish \/ v \in mark

\* The candidates that v leads an entry point fn to, when v has no release
\* capability: the elements of what fn takes for a sequence, the result of
\* what fn takes for a factory.
ChildrenOf(fn, v) ==
  IF Releasable(v) \/ ReportsDisposed(v) \/ IsDisposedKind(v) = "throws" THEN {}
  ELSE IF Shape(fn, v) = "sequence" THEN {Elements(v)[n] : n \in 1..Len(Elements(v))}
  ELSE IF Shape(fn, v) = "factory" /\ CallResult(v).kind = "return" THEN {CallResult(v).val}
  ELSE {}

RECURSIVE ClosureOf(_, _)
ClosureOf(fn, S) ==
  LET T == S \cup UNION {ChildrenOf(fn, v) : v \in S}
  IN IF T = S THEN S ELSE ClosureOf(fn, T)

Children(v) == ChildrenOf(Top.fn, v)

Closure(S) == ClosureOf(Top.fn, S)

\* Everything reachable from the arguments of the top-level call: directly,
\* nested in sequences, returned by factories.
Reachable == Closure({Top.args[n] : n \in 1..Len(Top.args)})

\* The reachable objects the call is expected to release.
Due == {v \in Reachable : Releasable(v) /\ ~ReportsDisposed(v)
                            /\ IsDisposedKind(v) # "throws"}

\* The loop of the top-level call is over.
LoopOver == Started /\ Top.pc # "loop"

------------------------------------------------------------------------------
------------------------------------------------------------------------------
\* C2: a candidate that is null, undefined or reports isDisposed when it is
\* examined never has a release capability invoked and raises no error: every
\* invocation and every throw comes from a candidate that did not report
\* isDisposed at that moment, and a call whose arguments are all nullish or
\* disposed invokes nothing and completes normally.
OnlyDisposedArgs == Started /\ \A n \in 1..Len(Top.args) : ReportsDisposed(Top.args[n])

C2_DisposedNeverInvoked ==
  [][/\ Len(log') > Len(log) => ~ReportsDisposed(log'[Len(log')].obj)
     /\ Len(thrown') > Len(thrown) => ~ReportsDisposed(thrown'[Len(thrown')].by)
     /\ OnlyDisposedArgs' =>
          /\ log' = <<>> /\ thrown' = <<>>
          /\ Top'.result.kind \in {"none", "returned", "fulfilled"}]_vars

\* x reports isDisposed and its dispose() would throw; a is released after it.
C2_Witness ==
  /\ Started /\ Top.pc = "done"
  /\ Top.args = <<"x", "a">>
  /\ Top.result.kind \in {"returned", "fulfilled"}
  /\ "x" \in Top.seen
  /\ Count("x") = 0 /\ Count("a") = 1 /\ thrown = <<>>

------------------------------------------------------------------------------
\* C3: when something throws inside the loop of dispose, dispose ends by
\* throwing that same error, and from then on no release capability and no
\* factory is invoked.
ThrewInLoop == Started /\ \E n \in 1..Len(thrown) : thrown[n].at = "loop"

C3_DisposeFailFast ==
  [][/\ (Started /\ Top.fn = "dispose" /\ ThrewInLoop) => log' = log
     /\ (Started' /\ Top'.fn = "dispose" /\ ThrewInLoop') =>
          /\ Top'.pc = "done"
          /\ Top'.result = [kind |-> "threw", err |-> thrown'[1].err]]_vars

\* dispose(t1, a): t1.dispose() throws E1 and a is never released.
C3_Witness ==
  /\ Started /\ Top.fn = "dispose" /\ Top.pc = "done"
  /\ Top.args = <<"t1", "a">>
  /\ Top.result = [kind |-> "threw", err |-> "E1"]
  /\ log = <<[obj |-> "t1", via |-> "dispose"]>>

------------------------------------------------------------------------------
\* C4: tryDispose returns normally whatever throws, and every reachable
\* not-yet-released releasable object has its release capability invoked
\* exactly once.
C4_TryDisposeReleasesAll ==
  (Started /\ Top.fn = "tryDispose") =>
     /\ Top.result.kind \in {"none", "returned"}
     /\ Top.pc = "done" => \A v \in Due : Count(v) = 1

------------------------------------------------------------------------------
\* The errors a best-effort path caught so far: thrown inside a try block of
\* tryDispose or tryDisposeAsync, or the reason of a rejection that reached
\* an ignoreError rejection handler.
Caught ==
  {thrown[n].err : n \in {m \in 1..Len(thrown) : thrown[m].caught}}
  \cup {Fate(reactions[j].src).err :
          j \in {m \in 1..Len(reactions) :
                   /\ reactions[m].st # "waiting"
                   /\ pstate[reactions[m].src] = "rejected"
                   /\ Swallows(reactions[m].kind)}}

\* How many times the callback received the error.
Reports(error) == Cardinality({n \in 1..Len(reported) : reported[n] = error})

------------------------------------------------------------------------------
\* The reactions the top-level call pushed on its promises list.
TopReactions == {Top.promises[n] : n \in 1..Len(Top.promises)}

\* The pending candidates the top-level call dispatched that have fulfilled
\* with an object the call is expected to release.
ResolvedDue ==
  {Fate(reactions[j].src).val :
     j \in {m \in TopReactions :
              /\ reactions[m].kind \in {"enqueue", "enqueueIgnore"}
              /\ pstate[reactions[m].src] = "fulfilled"
              /\ Releasable(Fate(reactions[m].src).val)
              /\ ~ReportsDisposed(Fate(reactions[m].src).val)
              /\ IsDisposedKind(Fate(reactions[m].src).val) # "throws"}}

\* C6: in disposeAsync and tryDisposeAsync the promise of the call fulfils
\* only after the value every dispatched pending candidate resolved to has
\* been released.
C6_ResolvedValueReleased ==
  (Started /\ Top.fn \notin SyncFns /\ Top.result.kind = "fulfilled") =>
     \A v \in ResolvedDue : Count(v) = 1

------------------------------------------------------------------------------
\* C7: the promise of disposeAsync fulfils only after every queued candidate
\* has been dispatched and every promise returned by a release capability
\* has fulfilled.
C7_FulfilsAfterAll ==
  (Started /\ Top.fn = "disposeAsync" /\ Top.result.kind = "fulfilled") =>
     /\ Top.i > Len(Top.instances)
     /\ \A pm \in ReleasePromises : pstate[pm] \in {"unborn", "fulfilled"}

------------------------------------------------------------------------------
\* The original errors of the failures of the top-level call: what was
\* thrown in its loop and the reasons of the rejected promises it waits on.
Failures ==
  {thrown[n].err : n \in {m \in 1..Len(thrown) : thrown[m].at = "loop"}}
  \cup {Fate(reactions[j].src).err :
          j \in {m \in TopReactions : pstate[reactions[m].src] = "rejected"}}
  \cup {thrown[n].err : n \in {m \in 1..Len(thrown) : thrown[m].at = "job"}}

\* C8: disposeAsync never throws synchronously; a throw in its loop rejects
\* its promise with the thrown error; its promise does not fulfil when a
\* promise it waits on (returned by a capability, or a pending candidate)
\* has rejected; when it rejects, the reason is one of the original error
\* objects; and the call never stalls before it has settled.
C8_DisposeAsyncRejects ==
  (Started /\ Top.fn = "disposeAsync") =>
     /\ Top.result.kind \in {"none", "fulfilled", "rejected"}
     /\ ThrewInLoop =>
          Top.pc = "done" /\ Top.result = [kind |-> "rejected", err |-> thrown[1].err]
     /\ Top.result.kind = "fulfilled" =>
          \A j \in TopReactions : pstate[reactions[j].src] = "fulfilled"
     /\ Top.result.kind = "rejected" => Top.result.err \in Failures
     /\ (Top.pc = "done" /\ Failures # {}) => Top.result.kind = "rejected"
     /\ Top.pc = "done" \/ ENABLED Progress

\* disposeAsync(rr, pr): rr.destroy() returns a promise that rejects with E2
\* and pr rejects with E1; the call rejects with one of the two.
C8_Witness ==
  /\ Started /\ Top.fn = "disposeAsync" /\ Top.pc = "done"
  /\ Top.args = <<"rr", "pr">>
  /\ pstate["r2"] = "rejected"
  /\ Top.result = [kind |-> "rejected", err |-> "E2"]

------------------------------------------------------------------------------
\* C9: tryDisposeAsync never throws synchronously and its promise never
\* rejects: whatever threw or rejected, the call is fulfilled or still has a
\* step to take (a loop iteration, a settlement, a promise job, the join).
C9_TryDisposeAsyncFulfils ==
  (Started /\ Top.fn = "tryDisposeAsync") =>
     /\ Top.result.kind \in {"none", "fulfilled"}
     /\ Top.pc = "done" => Top.result.kind = "fulfilled"
     /\ Top.result.kind = "fulfilled" \/ ENABLED Progress

\* tryDisposeAsync(t1, rr): a capability throws, another's promise rejects.
C9_Witness ==
  /\ Started /\ Top.fn = "tryDisposeAsync" /\ Top.pc = "done"
  /\ Top.args = <<"t1", "rr">>
  /\ pstate["r2"] = "rejected"
  /\ Len(thrown) = 1
  /\ Top.result.kind = "fulfilled"

------------------------------------------------------------------------------
\* The capabilities in the order the documentation lists them.
Precedence == <<"dispose", "destroy", "delete", "close">>

Exposes(v, m) ==
  m \in Methods(v) /\ (m = "delete" => DeleteLength(v) = 0)

\* The first capability of the list that v exposes.
Preferred(v) ==
  Precedence[CHOOSE n \in 1..Len(Precedence) :
               /\ Exposes(v, Precedence[n])
               /\ \A m \in 1..(n - 1) : ~Exposes(v, Precedence[m])]

\* C10: every entry point invokes exactly one capability of an object, the
\* first it exposes in the order dispose, destroy, zero-argument delete,
\* close.
C10_Precedence ==
  /\ \A n \in 1..Len(log) : log[n].via # "call" => log[n].via = Preferred(log[n].obj)
  /\ \A v \in Values : Count(v) <= 1

\* ab exposes dispose and destroy, dc exposes delete() and close.
C10_Witness ==
  /\ Started /\ Top.pc # "loop"
  /\ \E n \in 1..Len(log) : log[n] = [obj |-> "ab", via |-> "dispose"]
  /\ \E n \in 1..Len(log) : log[n] = [obj |-> "dc", via |-> "delete"]
  /\ \A n \in 1..Len(log) : log[n].obj # "ab" \/ log[n].via = "dispose"

------------------------------------------------------------------------------
\* v has a delete method that declares one or more parameters.
DeleteWithParams(v) == "delete" \in Methods(v) /\ DeleteLength(v) > 0

\* The values a frame has queued.
Queued(F) == {F.instances[n] : n \in 1..Len(F.instances)}

\* C11: no entry point ever invokes a delete method that declares
\* parameters; a dispatched object with such a delete is released through its
\* other capability when it has one, else expanded as a sequence when it is
\* iterable (its elements are queued), and isDisposable reports true for it
\* exactly when it has another release capability.
C11_DeleteWithParams ==
  /\ \A n \in 1..Len(log) :
        log[n].via = "delete" => DeleteLength(log[n].obj) = 0
  /\ Started =>
       \A v \in Top.seen :
          DeleteWithParams(v) =>
             /\ isDisposable(v) <=> (Methods(v) \cap {"dispose", "destroy", "close"} # {})
             /\ isDisposable(v) =>
                  \E n \in 1..Len(log) : log[n].obj = v /\ log[n].via \in Methods(v) \ {"delete"}
             /\ (~isDisposable(v) /\ "iterator" \in Methods(v)) =>
                  \A n \in 1..Len(Elements(v)) :
                     (IsCandidate(Elements(v)[n]) /\ ~ReportsDisposed(Elements(v)[n]))
                        => Elements(v)[n] \in Queued(Top)
             /\ ~isDisposable(v) => Count(v) = 0

\* A Set holding dm (delete(key) only), dcl (delete(key) and close) and b:
\* the Set is expanded, dm is left alone, dcl is closed, b is destroyed.
C11_Witness ==
  /\ LoopOver
  /\ {"set", "dm", "dcl", "b"} \subseteq Top.seen
  /\ Count("set") = 0 /\ Count("dm") = 0
  /\ \E n \in 1..Len(log) : log[n] = [obj |-> "dcl", via |-> "close"]
  /\ Count("b") = 1

------------------------------------------------------------------------------
(* using and usingAsync.                                                    *)

\* v itself is an object a dispatch call given v releases.
DueOne(v) == Releasable(v) /\ ~ReportsDisposed(v) /\ IsDisposedKind(v) # "throws"

\* The log entries made by the c-th dispatch call.
EntriesOf(c) ==
  {n \in 1..Len(log) :
     (n > calls[c].from) /\ (c < Len(calls) => n <= calls[c + 1].from)}

\* The errors that left a dispatch loop uncaught, in order.
Uncaught == SelectSeq(thrown, LAMBDA t : ~t.caught)

\* The functor of the running using call returned normally.
FunctorReturned == scope.fn = "using" /\ FunctorResult(scope.functor).kind = "return"

\* The functor of the running using call threw.
FunctorThrew == scope.fn = "using" /\ FunctorResult(scope.functor).kind = "throw"

\* A step of a running call of using.
UsingProgress == Step \/ LoopEnd \/ UsingCatch \/ UsingReturn

\* C12: when the functor of using returns normally, it has run (once) before
\* anything is released; the first dispatch call is dispose(instance), and a
\* releasable instance is released by that call; using returns exactly the
\* functor's result when dispose returns, and throws what dispose threw
\* (fail-fast) when it throws.
C12_UsingReleasesAfterFunctor ==
  FunctorReturned =>
     /\ log[1] = [obj |-> scope.functor, via |-> "call"]
     /\ \A n \in 2..Len(log) : log[n].obj # scope.functor
     /\ calls[1] = [fn |-> "dispose", args |-> <<scope.instance>>, from |-> 1, threw |-> 0]
     /\ (DueOne(scope.instance) /\ (scope.pc = "done" \/ Len(calls) > 1)) =>
          \E n \in EntriesOf(1) : log[n].obj = scope.instance /\ log[n].via # "call"
     /\ scope.result.kind \in {"none", "returned", "threw"}
     /\ scope.result.kind = "returned" =>
          scope.result.val = FunctorResult(scope.functor).val
     /\ scope.pc = "done" =>
          IF Uncaught = <<>>
          THEN scope.result.kind = "returned" /\ Len(calls) = 1
          ELSE scope.result = [kind |-> "threw", val |-> "null", err |-> Uncaught[1].err]
     /\ scope.pc = "done" \/ ENABLED UsingProgress

\* using(a, fv): fv returns res, then a.dispose() runs, then using returns res.
C12_Witness ==
  /\ scope.fn = "using" /\ scope.pc = "done"
  /\ scope.instance = "a" /\ scope.functor = "fv"
  /\ log = <<[obj |-> "fv", via |-> "call"], [obj |-> "a", via |-> "dispose"]>>
  /\ scope.result = [kind |-> "returned", val |-> "res", err |-> NoError]

------------------------------------------------------------------------------
\* C13: when the functor of using throws E, the only dispatch call is
\* tryDispose(instance), which catches whatever the release throws; a
\* releasable instance is released once; and using throws exactly E.
C13_UsingRethrows ==
  FunctorThrew =>
     /\ calls = <<[fn |-> "tryDispose", args |-> <<scope.instance>>, from |-> 1,
                   threw |-> 0]>>
     /\ Uncaught = <<>>
     /\ scope.result.kind \in {"none", "threw"}
     /\ scope.pc = "done" =>
          /\ scope.result = [kind |-> "threw", val |-> "null",
                             err |-> FunctorResult(scope.functor).err]
          /\ DueOne(scope.instance) => Count(scope.instance) = 1
     /\ scope.pc = "done" \/ ENABLED UsingProgress

\* using(t1, fthrow): fthrow throws EF, t1.dispose() throws E1, using throws EF.
C13_Witness ==
  /\ scope.fn = "using" /\ scope.pc = "done"
  /\ scope.instance = "t1" /\ scope.functor = "fthrow"
  /\ thrown = <<[by |-> "t1", err |-> "E1", at |-> "loop", caught |-> TRUE]>>
  /\ Count("t1") = 1
  /\ scope.result = [kind |-> "threw", val |-> "null", err |-> "EF"]

------------------------------------------------------------------------------
\* C14: when the promise of usingAsync has settled, on whichever path, a
\* releasable instance has had its release capability invoked (once) and the
\* promise that capability returned, if any, has settled.
C14_UsingAsyncReleasesFirst ==
  (scope.fn = "usingAsync" /\ scope.pc = "done" /\ DueOne(scope.held)) =>
     /\ Count(scope.held) = 1
     /\ ReleaseResult(scope.held).kind = "promise" =>
          pstate[ReleaseResult(scope.held).p] \in {"fulfilled", "rejected"}

\* usingAsync(rp, frej): the functor's promise rejects with EF, rp.dispose()
\* returns r1, and usingAsync rejects with EF after r1 has fulfilled.
C14_Witness ==
  /\ scope.fn = "usingAsync" /\ scope.pc = "done"
  /\ scope.instance = "rp" /\ scope.functor = "frej"
  /\ pstate["fq"] = "rejected"
  /\ Count("rp") = 1 /\ pstate["r1"] = "fulfilled"
  /\ scope.result = Rejected("EF")

------------------------------------------------------------------------------
\* C15: when the functor of usingAsync throws or its promise rejects with E,
\* the promise of usingAsync rejects with exactly E, whatever the release
\* does.
C15_RejectsWithFunctorError ==
  (scope.fn = "usingAsync" /\ scope.pc = "done" /\ scope.out = Rejected("EF")) =>
     scope.result = Rejected("EF")

------------------------------------------------------------------------------
\* C16: when the functor of using returns a promise, the release capability
\* of the instance is not invoked while that promise is pending.
C16_ReleaseAfterResultSettles ==
  (FunctorReturned /\ FunctorResult(scope.functor).val \in Promises) =>
     (Count(scope.instance) > 0 => pstate[FunctorResult(scope.functor).val] # "pending")

------------------------------------------------------------------------------
\* The frames of the tryDisposeAsync calls made for pending candidates.
DetachedFrames == 2..Len(frames)

\* The candidates the loop of the top-level call has dispatched and taken as
\* pending.
DispatchedPending ==
  {v \in Top.seen \cap PendingCandidates : Shape(Top.fn, v) = "pending"}

\* The reactions registered by detached calls whose candidate has rejected
\* and whose rejection handler has run.
DetachedRejections ==
  {j \in 1..Len(reactions) :
     /\ reactions[j].frame \in DetachedFrames
     /\ reactions[j].st # "waiting"
     /\ pstate[reactions[j].src] = "rejected"}

\* C17: in dispose every dispatched pending candidate is handed to a
\* tryDisposeAsync call of its own and is not waited for: it is still pending
\* while the loop runs and the loop always has a step to take; the candidates
\* queued after it are released in the same pass; dispose throws only what
\* was thrown in its loop, never the rejection; and once the candidate has
\* rejected the reason is handed to the onIgnoredError callback, once.
C17_PendingDetached ==
  (Started /\ Top.fn = "dispose") =>
     /\ \A v \in DispatchedPending :
          \E k \in DetachedFrames :
             frames[k].fn = "tryDisposeAsync" /\ frames[k].args = <<v>>
     /\ Top.pc = "loop" =>
          /\ \A v \in DispatchedPending : pstate[v] = "pending"
          /\ ENABLED (Step \/ LoopEnd)
     /\ (LoopOver /\ thrown = <<>>) => \A v \in Due : Count(v) = 1
     /\ Top.result.kind \in {"none", "returned", "threw"}
     /\ Top.result.kind = "threw" <=> ThrewInLoop
     /\ \A j \in DetachedRejections :
          onIgnoredError # "empty" => Reports(Fate(reactions[j].src).err) = 1

\* dispose(pr, a) with a callback set: a is released, dispose returns, then
\* pr rejects with E1 and the callback receives E1.
C17_Witness ==
  /\ Started /\ Top.fn = "dispose" /\ Top.args = <<"pr", "a">>
  /\ Top.result.kind = "returned"
  /\ Count("a") = 1
  /\ pstate["pr"] = "rejected"
  /\ reported = <<"E1">>

------------------------------------------------------------------------------
\* The releasable objects the pending candidates detached by the top-level
\* call have fulfilled with.
DetachedResolved ==
  {Fate(reactions[j].src).val :
     j \in {m \in 1..Len(reactions) :
              /\ reactions[m].frame \in DetachedFrames
              /\ reactions[m].st # "waiting"
              /\ pstate[reactions[m].src] = "fulfilled"
              /\ DueOne(Fate(reactions[m].src).val)}}

\* C18: in dispose and tryDispose, the releasable object a detached pending
\* candidate fulfilled with has been released by the time nothing is left to
\* run (from then on nothing is ever released).
C18_DetachedValueReleased ==
  (Idle /\ Top.fn \in SyncFns) => \A v \in DetachedResolved : Count(v) >= 1

------------------------------------------------------------------------------
\* The positions in the queue of disposeAsync of the pending candidates that
\* have rejected.
RejectedAt ==
  {n \in 1..Len(Top.instances) :
     /\ Top.instances[n] \in DispatchedPending
     /\ pstate[Top.instances[n]] = "rejected"}

\* C19: when a pending candidate of disposeAsync has rejected, no candidate
\* queued after it has had a release capability invoked, and the promise of
\* disposeAsync, once settled, is rejected with that reason.
C19_PendingRejectionAbandons ==
  (Started /\ Top.fn = "disposeAsync") =>
     \A n \in RejectedAt :
        /\ \A m \in (n + 1)..Len(Top.instances) : Count(Top.instances[m]) = 0
        /\ Top.pc = "done" =>
             Top.result = [kind |-> "rejected", err |-> Fate(Top.instances[n]).err]

------------------------------------------------------------------------------
(* Several calls, one after the other.                                      *)

\* The errors raised during the c-th dispatch call.
ThrownIn(c) ==
  {n \in 1..Len(thrown) :
     (n > calls[c].threw) /\ (c < Len(calls) => n <= calls[c + 1].threw)}

\* How many times the c-th call invoked a release capability of v.
CountIn(c, v) ==
  Cardinality({n \in EntriesOf(c) : log[n].obj = v /\ log[n].via # "call"})

\* The objects the c-th call is expected to release: those reachable from
\* its arguments that expose a release capability and do not report
\* isDisposed.
DueOf(c) ==
  {v \in ClosureOf(calls[c].fn, {calls[c].args[n] : n \in 1..Len(calls[c].args)}) :
     DueOne(v)}

\* The loop of the c-th call is over.
Completed(c) == c < Len(calls) \/ LoopOver

\* The calls that were given v, directly or through sequences and factories.
CallsGiven(v) == {c \in 1..Len(calls) : v \in DueOf(c)}

------------------------------------------------------------------------------
\* Opaque candidates: primitives and plain objects with no recognised shape.
Opaque ==
  {v \in Values \ Nullish :
     ~IsCandidate(v) \/ (TypeOf(v) = "object" /\ Methods(v) = {})}

\* Factories with no release capability that return undefined.
VoidFactories ==
  {v \in Values :
     /\ TypeOf(v) = "function" /\ Methods(v) = {}
     /\ CallResult(v) = [kind |-> "return", val |-> "undef", err |-> NoError]}

\* The candidate the loop of the top-level call is about to dispatch.
Current == Top.instances[Top.i]

\* An iteration that leaves the queue and everything outside the frame as
\* they were and moves on to the next candidate.
MovesOn ==
  /\ Len(frames') = Len(frames)
  /\ frames'[1].instances = Top.instances
  /\ frames'[1].promises = Top.promises
  /\ frames'[1].i = Top.i + 1
  /\ frames'[1].pc = "loop"
  /\ frames'[1].seen \subseteq Top.seen \cup {Current}
  /\ thrown' = thrown /\ reported' = reported /\ marked' = marked
  /\ mark' = mark /\ pstate' = pstate /\ reactions' = reactions

\* C21: in every entry point the iteration on an opaque candidate invokes
\* nothing and raises nothing, and leaves the queue, the candidates seen and
\* the loop as they were, but for the step to the next candidate; the
\* iteration on a factory returning undefined does the same but for the one
\* call of the factory; no log entry and no error ever names an opaque
\* candidate, and no release capability of such a factory is invoked.
C21_OpaqueIgnored ==
  /\ [](/\ \A n \in 1..Len(log) : log[n].obj \notin Opaque
        /\ \A n \in 1..Len(thrown) : thrown[n].by \notin Opaque \cup VoidFactories
        /\ \A v \in VoidFactories : Count(v) = 0)
  /\ [][/\ (Step /\ Current \in Opaque) => (MovesOn /\ log' = log)
        /\ (Step /\ Current \in VoidFactories) =>
             /\ MovesOn
             /\ log' \in {log, Append(log, [obj |-> Current, via |-> "call"])}]_vars

\* tryDisposeAsync(sc): the plain object and the factory returning undefined
\* were dispatched, nothing was raised, and own and a, queued after them, were
\* released.
C21_Witness ==
  /\ Started /\ Top.args = <<"sc">> /\ Top.fn = "tryDisposeAsync"
  /\ LoopOver
  /\ {"plain", "fu"} \subseteq Top.seen
  /\ \E n \in 1..Len(log) : log[n] = [obj |-> "fu", via |-> "call"]
  /\ Count("own") = 1 /\ Count("a") = 1
  /\ thrown = <<>>

------------------------------------------------------------------------------
\* The loop of the top-level call is about to dispatch a candidate it has not
\* seen and that does not report isDisposed.
Dispatching ==
  /\ Started /\ Top.pc = "loop" /\ Top.i <= Len(Top.instances)
  /\ ~Skip(Top, Current)
  /\ ~isDisposedThrows(Current)
  /\ ~isDisposed(Current)

\* C22: in all four entry points a dispatched candidate with no release
\* capability and a then method is taken as pending, whatever else it is: its
\* then is subscribed to, it is not iterated (the queue does not grow) and it
\* is not called.
C22_PendingFirst ==
  [][(Step /\ Dispatching /\ Capability(Current) = "none" /\ "then" \in Methods(Current)) =>
        /\ log' = log
        /\ frames'[1].instances = Top.instances
        /\ Len(reactions') = Len(reactions) + 1
        /\ reactions'[Len(reactions')].src = Current]_vars

------------------------------------------------------------------------------
\* A name was supplied: the argument is neither omitted nor empty.
Supplied(name) == name \notin {"undefined", ""}

\* What the message names when no name is supplied: the value itself for
\* null and undefined, else the name of its constructor, else 'instance'.
Fallback(v) ==
  CASE v = "null" -> "null"
    [] v = "undef" -> "undefined"
    [] ConstructorName(v) # "" -> ConstructorName(v)
    [] OTHER -> "instance"

\* C23: whenever isDisposed(value) returns, throwIfDisposed(value, name)
\* raises a TypeError if value is null, undefined or isDisposed(value) is
\* true, and returns otherwise; the message of the TypeError starts with name
\* when one is supplied, else with the value itself (null, undefined), the
\* name of its constructor or 'instance'; when the isDisposed method of value
\* throws, throwIfDisposed raises what it threw.
C23_ThrowIfDisposed ==
  answer.fn = "throwIfDisposed" =>
     /\ ~isDisposedThrows(answer.value) =>
          /\ answer.kind \in {"TypeError", "returned"}
          /\ answer.kind = "TypeError" <=>
               (answer.value \in Nullish \/ isDisposed(answer.value))
     /\ answer.kind = "TypeError" =>
          answer.val[1] = IF Supplied(answer.name) THEN answer.name
                          ELSE Fallback(answer.value)
     /\ isDisposedThrows(answer.value) =>
          (answer.kind = "threw" /\ answer.val = <<ProbeError(answer.value)>>)

\* throwIfDisposed(xt) with no name, xt a released instance of an anonymous
\* class: TypeError 'instance is disposed'.
C23_Witness ==
  /\ answer.fn = "throwIfDisposed" /\ answer.value = "xt" /\ answer.name = "undefined"
  /\ answer.kind = "TypeError"
  /\ answer.val = <<"instance", "is disposed">>

------------------------------------------------------------------------------
\* null, undefined, primitives, functions, plain objects, arrays, a Set and
\* an object whose only capability is delete(key).
NeverDisposable ==
  {v \in Values : v \in Nullish \/ TypeOf(v) \in {"number", "function"}}
    \cup {"plain", "s1", "s2", "sq", "sp", "sc", "sh", "set", "dm"}

\* C24: isDisposable(x) returns true exactly when x is an object, not null
\* and not a function, with a dispose, destroy or close method or a delete
\* method declaring no parameter; it returns false for null, undefined,
\* primitives, functions, plain objects, arrays and Set.
C24_IsDisposable ==
  answer.fn = "isDisposable" =>
     /\ answer.kind = "returned"
     /\ answer.val = <<"true">> <=>
          /\ TypeOf(answer.value) = "object"
          /\ answer.value # "null"
          /\ \/ Methods(answer.value) \cap {"dispose", "destroy", "close"} # {}
             \/ ("delete" \in Methods(answer.value) /\ DeleteLength(answer.value) = 0)
     /\ answer.value \in NeverDisposable => answer.val = <<"false">>

\* isDisposable(fd), fd a function with a dispose method: false.
C24_Witness ==
  /\ answer.fn = "isDisposable" /\ answer.value = "fd"
  /\ "dispose" \in Methods("fd")
  /\ answer.val = <<"false">>

------------------------------------------------------------------------------
------------------------------------------------------------------------------
\* How many times the function v was called as a factory.
Invocations(v) ==
  Cardinality({n \in 1..Len(log) : log[n] = [obj |-> v, via |-> "call"]})

\* The loop of the top-level call is about to call Current as a factory.
CallingFactory ==
  /\ Dispatching
  /\ Capability(Current) = "none"
  /\ Shape(Top.fn, Current) = "factory"

------------------------------------------------------------------------------
\* s is an initial segment of t.
IsPrefix(s, t) == Len(s) <= Len(t) /\ SubSeq(t, 1, Len(s)) = s

\* Where v first stands in the queue of the top-level call.
FirstIndex(v) ==
  CHOOSE n \in 1..Len(Top.instances) :
     Top.instances[n] = v /\ \A m \in 1..(n - 1) : Top.instances[m] # v

\* The children of w the traversal gets to: the iteration of a sequence ends at
\* the first element whose isDisposed throws.
Discovers(w) ==
  IF Shape(Top.fn, w) = "sequence"
  THEN {e \in Children(w) :
          \E n \in 1..Len(Elements(w)) :
             /\ Elements(w)[n] = e
             /\ \A m \in 1..n : ~isDisposedThrows(Elements(w)[m])}
  ELSE Children(w)

\* The nesting depth at which v is first reached from the set S of candidates
\* at depth d, or -1 when v is out of reach.
RECURSIVE DepthFrom(_, _, _)
DepthFrom(S, v, d) ==
  IF v \in S THEN d
  ELSE LET T == S \cup UNION {Discovers(w) : w \in S}
       IN IF T = S THEN -1 ELSE DepthFrom(T, v, d + 1)

\* The nesting depth of v below the arguments of the top-level call.
Depth(v) == DepthFrom({Top.args[n] : n \in 1..Len(Top.args)}, v, 0)

\* The loop of the top-level call is about to iterate Current, none of whose
\* elements has a throwing isDisposed.
ExpandingSequence ==
  /\ Dispatching
  /\ Capability(Current) = "none"
  /\ Shape(Top.fn, Current) = "sequence"
  /\ \A n \in 1..Len(Elements(Current)) : ~isDisposedThrows(Elements(Current)[n])

\* C27: the queue of a call starts with its arguments, in order, and only
\* grows at its end; the loop dispatches it from left to right; an expanded
\* sequence adds its unseen, unreleased elements in their order; so the
\* capabilities are invoked in the order in which the candidates first stand
\* in the queue, and never at a smaller nesting depth than an earlier one.
C27_BreadthFirst ==
  /\ [](Started =>
          /\ IsPrefix(Top.args, Top.instances)
          /\ \A m \in 1..Len(log) :
                /\ log[m].obj \in Queued(Top)
                /\ Depth(log[m].obj) >= 0
                /\ \A n \in 1..(m - 1) :
                      /\ FirstIndex(log[n].obj) <= FirstIndex(log[m].obj)
                      /\ Depth(log[n].obj) <= Depth(log[m].obj))
  /\ [][/\ Started => IsPrefix(Top.instances, frames'[1].instances)
        /\ Step => frames'[1].i = Top.i + 1 \/ frames'[1].pc = "done"
        /\ (Step /\ Len(log') > Len(log)) => log'[Len(log')].obj = Current
        /\ (Step /\ ExpandingSequence) =>
             frames'[1].instances =
                Top.instances \o
                SelectSeq(Elements(Current),
                          LAMBDA e : /\ IsCandidate(e)
                                     /\ e \notin Top.seen \cup {Current}
                                     /\ ~isDisposed(e))]_vars

\* tryDispose(s1): a and ab, elements of s1, were released before b and dc,
\* elements of the nested s2, although s2 stands before ab in s1.
C27_Witness ==
  /\ Started /\ Top.fn = "tryDispose" /\ Top.args = <<"s1">>
  /\ LoopOver
  /\ log = <<[obj |-> "a", via |-> "dispose"], [obj |-> "ab", via |-> "dispose"],
             [obj |-> "b", via |-> "destroy"], [obj |-> "dc", via |-> "delete"]>>

------------------------------------------------------------------------------
\* How many candidates the dispatch of v can put on the queue.
FanOut(v) ==
  IF Capability(v) # "none" THEN 0
  ELSE CASE Shape(Top.fn, v) = "sequence" -> Len(Elements(v))
         [] Shape(Top.fn, v) \in {"factory", "pending"} -> 1
         [] OTHER -> 0

RECURSIVE TotalFanOut(_)
TotalFanOut(S) ==
  IF S = {} THEN 0
  ELSE LET v == CHOOSE w \in S : TRUE
       IN FanOut(v) + TotalFanOut(S \ {v})

\* C28: the loop of every call ends and the call completes, also when a
\* sequence contains itself, two sequences contain each other or a factory
\* returns itself or a candidate already seen: an iteration on a candidate
\* seen before changes neither the queue nor the log, every dispatched object
\* or function is seen from then on, and the queue never holds more than the
\* arguments and what each candidate seen can put on it once.
C28_Terminates ==
  /\ [](Started =>
          /\ Top.i <= Len(Top.instances) + 1
          /\ Len(Top.instances) <= Len(Top.args) + TotalFanOut(Top.seen))
  /\ [][/\ (Step /\ Current \in Top.seen) =>
             /\ frames'[1].instances = Top.instances
             /\ frames'[1].seen = Top.seen
             /\ log' = log
        /\ (Step /\ IsCandidate(Current)) => Current \in frames'[1].seen
        /\ Started => Top.seen \subseteq frames'[1].seen]_vars
  /\ (Started ~> LoopOver)
  /\ (Started ~> (Started /\ Top.result.kind # "none"))

\* disposeAsync(s1, sc) has fulfilled: s1 and s2 contain each other, sc
\* contains itself and the function fs, which returns itself; each of them
\* was dispatched.
C28_Witness ==
  /\ Started /\ Top.fn = "disposeAsync" /\ Top.args = <<"s1", "sc">>
  /\ Top.result.kind = "fulfilled"
  /\ {"s1", "s2", "sc", "fs"} \subseteq Top.seen
  /\ Invocations("fs") = 1

------------------------------------------------------------------------------
\* The release capabilities the c-th call invoked, in order.
Releases(c) ==
  SelectSeq(SubSeq(log, calls[c].from + 1,
                   IF c < Len(calls) THEN calls[c + 1].from ELSE Len(log)),
            LAMBDA e : e.via # "call")

\* What the c-th call can reach from its arguments and does not report
\* isDisposed.
Given(c) ==
  {v \in ClosureOf(calls[c].fn, {calls[c].args[n] : n \in 1..Len(calls[c].args)}) :
     ~ReportsDisposed(v)}

\* The c-th call was given no pending candidate.
NoPendingIn(c) == \A v \in Given(c) : "then" \notin Methods(v)

\* No release capability of what the c-th call was given throws.
NoThrowingCapabilityIn(c) ==
  \A v \in Given(c) : Releasable(v) => ReleaseResult(v).kind # "throw"

\* Nothing the c-th call was given throws: no release capability, no
\* factory, no isDisposed method.
NothingThrowsIn(c) ==
  /\ NoThrowingCapabilityIn(c)
  /\ \A v \in Given(c) :
        /\ (TypeOf(v) = "function" /\ ~Releasable(v)) => CallResult(v).kind # "throw"
        /\ IsDisposedKind(v) # "throws"

\* Two completed calls with the same arguments.
SameArguments(c, d) ==
  /\ calls[c].args = calls[d].args
  /\ Completed(c) /\ Completed(d)

\* C29 (as stated): two calls of any of the four entry points with the same
\* arguments, holding no pending candidate and no release capability that
\* throws, invoke the same release capabilities on the same objects in the
\* same order.
C29_SameTraversalAsStated ==
  \A c, d \in 1..Len(calls) :
     (SameArguments(c, d) /\ NoPendingIn(c) /\ NoPendingIn(d)
        /\ NoThrowingCapabilityIn(c) /\ NoThrowingCapabilityIn(d)) =>
        Releases(c) = Releases(d)

\* C29: two calls of any of the four entry points with the same arguments,
\* holding no pending candidate and nothing that throws (no release
\* capability, no factory, no isDisposed method), invoke the same release
\* capabilities on the same objects in the same order.
C29_SameTraversal ==
  \A c, d \in 1..Len(calls) :
     (SameArguments(c, d) /\ NoPendingIn(c) /\ NoPendingIn(d)
        /\ NothingThrowsIn(c) /\ NothingThrowsIn(d)) =>
        Releases(c) = Releases(d)

\* dispose(s1), then tryDisposeAsync(s1): each released a, ab, b and dc, in
\* that order.
C29_Witness ==
  /\ Len(calls) = 2 /\ LoopOver
  /\ calls[1].fn = "dispose" /\ calls[2].fn = "tryDisposeAsync"
  /\ calls[1].args = <<"s1">> /\ calls[2].args = <<"s1">>
  /\ NoPendingIn(1) /\ NothingThrowsIn(1)
  /\ Releases(1) = <<[obj |-> "a", via |-> "dispose"], [obj |-> "ab", via |-> "dispose"],
                     [obj |-> "b", via |-> "destroy"], [obj |-> "dc", via |-> "delete"]>>
  /\ Releases(2) = Releases(1)

------------------------------------------------------------------------------
\* The objects that the releases logged before the n-th entry marked as
\* disposed.
MarkedBefore(n) == UNION {Marks(log[m].obj) : m \in 1..(n - 1)}

\* C30: the loop tests isDisposed again when the turn of a candidate comes:
\* the iteration on a queued candidate that reports isDisposed by then invokes
\* nothing, raises nothing and leaves the queue as it was, so no release
\* capability is ever invoked on an object that an earlier release had marked
\* as disposed, although the object was put on the queue before.
C30_RecheckedAtDispatch ==
  /\ [](\A n \in 1..Len(log) : log[n].obj \notin MarkedBefore(n))
  /\ [][(Step /\ IsCandidate(Current) /\ Current \notin Top.seen
           /\ ~isDisposedThrows(Current) /\ isDisposed(Current)) =>
          /\ log' = log
          /\ thrown' = thrown
          /\ mark' = mark
          /\ frames'[1].instances = Top.instances
          /\ frames'[1].i = Top.i + 1
          /\ Current \in frames'[1].seen]_vars

\* disposeAsync(sc): part was put on the queue with own, not yet disposed;
\* own.dispose() released it; at its turn part was dispatched and its dispose
\* was not invoked.
C30_Witness ==
  /\ Started /\ Top.fn = "disposeAsync" /\ Top.args = <<"sc">>
  /\ LoopOver
  /\ "part" \in Queued(Top) /\ "part" \in Top.seen
  /\ "part" \notin InitiallyDisposed /\ "part" \in mark
  /\ Count("own") = 1
  /\ Count("part") = 0

------------------------------------------------------------------------------
\* The promises the call of frame k subscribed to: those returned by its
\* release capabilities and its pending candidates.
SubscribedBy(k) == {j \in 1..Len(reactions) : reactions[j].frame = k}

\* The promises returned by release capabilities in the call of frame k.
ReleasesOf(k) ==
  {reactions[j].src : j \in {i \in SubscribedBy(k) : reactions[i].src \in ReleasePromises}}

\* C31: when the promise of a tryDisposeAsync call has fulfilled, its loop is
\* over and every promise returned by one of its release capabilities has
\* settled, by fulfilment or by rejection, and its handler has run; so while a
\* release is pending the call has not completed, also after another release
\* has rejected.
C31_TryDisposeAsyncWaitsForAll ==
  \A k \in 1..Len(frames) :
     (frames[k].fn = "tryDisposeAsync" /\ frames[k].result.kind # "none") =>
        /\ frames[k].result.kind = "fulfilled"
        /\ frames[k].pc = "done"
        /\ \A j \in SubscribedBy(k) :
              /\ pstate[reactions[j].src] \in {"fulfilled", "rejected"}
              /\ reactions[j].st # "waiting"

\* tryDisposeAsync(rr, rp) has fulfilled after the release of rr rejected and
\* the release of rp fulfilled.
C31_Witness ==
  /\ Started /\ Top.fn = "tryDisposeAsync" /\ Top.args = <<"rr", "rp">>
  /\ Top.result.kind = "fulfilled"
  /\ ReleasesOf(1) = {"r1", "r2"}
  /\ pstate["r2"] = "rejected" /\ pstate["r1"] = "fulfilled"

------------------------------------------------------------------------------
\* C32: when the promise of disposeAsync has settled, by fulfilment or by
\* rejection, no promise returned by a release capability of that call is
\* still pending.
C32_SettlesAfterReleases ==
  (Started /\ Top.fn = "disposeAsync" /\ Top.result.kind # "none") =>
     \A pm \in ReleasesOf(1) : pstate[pm] # "pending"

------------------------------------------------------------------------------
\* The arguments of the top-level call whose release returns a promise that
\* rejects, by position.
RejectingArgs ==
  {n \in 1..Len(Top.args) :
     /\ ReleaseResult(Top.args[n]).kind = "promise"
     /\ Fate(ReleaseResult(Top.args[n]).p).kind = "reject"}

\* What the arguments alone say about the outcome of the top-level call:
\* tryDisposeAsync fulfils; disposeAsync fulfils when no release rejects and
\* else rejects with the rejection of the first argument whose release rejects.
OutcomeByArguments ==
  IF Top.fn = "tryDisposeAsync" \/ RejectingArgs = {}
  THEN [kind |-> "fulfilled", err |-> NoError]
  ELSE LET n == CHOOSE i \in RejectingArgs : \A j \in RejectingArgs : i <= j
       IN [kind |-> "rejected", err |-> Fate(ReleaseResult(Top.args[n]).p).err]

\* C33: the loop of disposeAsync and tryDisposeAsync always has a step to
\* take while the promises returned by earlier releases are pending, and the
\* outcome of the call is the one its arguments determine, in whatever order
\* the releases settle.
C33_OrderIndependent ==
  /\ (Started /\ Top.pc = "loop") =>
        /\ \A pm \in ReleasesOf(1) : pstate[pm] = "pending"
        /\ ENABLED (Step \/ LoopEnd)
  /\ (Started /\ Top.result.kind # "none") => Top.result = OutcomeByArguments

------------------------------------------------------------------------------
\* C34: a call of using invokes the release capability of its instance at
\* most once, on every exit path.
C34_UsingReleasesAtMostOnce ==
  scope.fn = "using" => Count(scope.instance) <= 1

------------------------------------------------------------------------------
\* C35: with a callback that throws, a best-effort call is not ended by what
\* the callback throws: every iteration of its loop moves on to the next
\* candidate, also the one that caught an error and handed it to the
\* callback; the loop always has a step to take; tryDispose returns and
\* tryDisposeAsync fulfils; and what the callback threw is never the outcome
\* of the call.
C35_CallbackNeverChangesFlow ==
  /\ []((Started /\ Top.fn \in TryFns /\ onIgnoredError = "throwing") =>
          /\ Top.result.kind \in {"none", "returned", "fulfilled"}
          /\ Top.result.err # CallbackError
          /\ Top.pc = "loop" => ENABLED (Step \/ LoopEnd)
          /\ Top.pc = "done" =>
               /\ Top.i > Len(Top.args)
               /\ Top.result.kind = IF Top.fn = "tryDispose" THEN "returned" ELSE "fulfilled")
  /\ [][(Step /\ Top.fn \in TryFns /\ onIgnoredError = "throwing") =>
          /\ frames'[1].pc = "loop"
          /\ frames'[1].i = Top.i + 1]_vars

\* tryDispose(t1, a) with a callback that throws: the callback received E1,
\* a was released and tryDispose returned.
C35_Witness ==
  /\ Started /\ Top.fn = "tryDispose" /\ Top.args = <<"t1", "a">>
  /\ onIgnoredError = "throwing"
  /\ reported = <<"E1">>
  /\ Count("a") = 1
  /\ Top.result.kind = "returned"

------------------------------------------------------------------------------
\* The calls whose best-effort loop caught the error e.
CallsCatching(e) ==
  {c \in 1..Len(calls) :
     \E n \in ThrownIn(c) : thrown[n].err = e /\ thrown[n].caught}

\* C36: every call starts with an empty visited set and an empty list of
\* promises, and with a callback set that returns normally an error object
\* caught by a best-effort call is handed to the callback in that call,
\* whether or not an earlier call reported it: a markable error caught in N
\* calls has been reported N times.
C36_NothingSurvives ==
  /\ (Started /\ Top.pc = "loop" /\ Top.i = 1) =>
        (Top.seen = {} /\ Top.promises = <<>>)
  /\ (Started /\ LoopOver /\ onIgnoredError = "log") =>
        \A e \in {"E1", "E3"} : Reports(e) = Cardinality(CallsCatching(e))

------------------------------------------------------------------------------
\* The reasons of the rejections that reached an ignoreError handler.
CaughtRejections ==
  {Fate(reactions[j].src).err :
     j \in {i \in 1..Len(reactions) :
              /\ Swallows(reactions[i].kind)
              /\ reactions[i].st # "waiting"
              /\ pstate[reactions[i].src] = "rejected"}}

\* C37: with a callback set, every value a best-effort call caught, thrown
\* or the reason of a rejection, whatever it is, was handed to the callback.
C37_EveryFailureReported ==
  onIgnoredError # "empty" =>
     \A e \in Caught \cup CaughtRejections : Reports(e) >= 1

------------------------------------------------------------------------------
\* What await v evaluates to when it does not throw.
Awaited(v) == IF v \in Promises THEN Fate(v).val ELSE v

\* await v throws.
AwaitThrows(v) == v \in Promises /\ Fate(v).kind = "reject"

\* The object usingAsync works with: the awaited instance, or, when that is
\* a function, the awaited result of calling it.
Resolved(v) ==
  IF TypeOf(Awaited(v)) = "function" THEN Awaited(CallResult(Awaited(v)).val)
  ELSE Awaited(v)

\* The instance can be resolved: no await rejects and the factory returns.
Resolves(v) ==
  /\ ~AwaitThrows(v)
  /\ TypeOf(Awaited(v)) = "function" =>
       /\ CallResult(Awaited(v)).kind = "return"
       /\ ~AwaitThrows(CallResult(Awaited(v)).val)

\* usingAsync has resolved its instance and gone on to the functor.
PastResolution ==
  /\ scope.fn = "usingAsync"
  /\ scope.pc \in {"functor", "finally", "done"}
  /\ Resolves(scope.instance)

\* What the functor stands for: what it returns, or the promise itself.
FunctorYield(g) == IF g \in FunctionFunctors THEN FunctorResult(g).val ELSE g

\* The functor returns and what it returns does not reject.
FunctorSucceeds(g) ==
  /\ g \in FunctionFunctors => FunctorResult(g).kind = "return"
  /\ ~AwaitThrows(FunctorYield(g))

\* How many of the first n entries of log are calls of v as a function.
InvocationsBefore(v, n) ==
  Cardinality({m \in 1..n : log[m] = [obj |-> v, via |-> "call"]})

\* C38: usingAsync invokes nothing while its instance is pending; once the
\* instance is resolved, a factory instance has been invoked exactly once
\* before the release starts, a function functor was handed the resolved
\* object, the one call of disposeAsync has that same object as its only
\* argument, and when neither the functor nor the release fails the promise
\* of usingAsync fulfils with the awaited result of the functor.
C38_UsingAsyncResolvesInstance ==
  scope.fn = "usingAsync" =>
    /\ scope.pc = "instance" => (log = <<>> /\ calls = <<>>)
    /\ PastResolution =>
         /\ scope.held = Resolved(scope.instance)
         /\ scope.functor \in FunctionFunctors => scope.given = Resolved(scope.instance)
         /\ scope.pc = "functor" => calls = <<>>
         /\ scope.pc \in {"finally", "done"} =>
              /\ Len(calls) = 1
              /\ calls[1].fn = "disposeAsync"
              /\ calls[1].args = <<Resolved(scope.instance)>>
         /\ TypeOf(Awaited(scope.instance)) = "function" =>
              InvocationsBefore(Awaited(scope.instance),
                                IF calls = <<>> THEN Len(log) ELSE calls[1].from) = 1
    /\ (/\ PastResolution
        /\ scope.pc = "done"
        /\ FunctorSucceeds(scope.functor)
        /\ Top.result.kind = "fulfilled") =>
         scope.result = [kind |-> "fulfilled", val |-> Awaited(FunctorYield(scope.functor)),
                         err |-> NoError]

\* usingAsync(p, fpend): p fulfils with b, fpend is called with b and its
\* promise fulfils with the number, b is released, usingAsync fulfils with
\* the number.
C38_Witness ==
  /\ scope.fn = "usingAsync" /\ scope.pc = "done"
  /\ scope.instance = "p" /\ scope.functor = "fpend"
  /\ scope.given = "b"
  /\ calls[1].args = <<"b">>
  /\ Count("b") = 1
  /\ scope.result = [kind |-> "fulfilled", val |-> "res", err |-> NoError]

\* usingAsync(f, fv): the factory f is called once and returns the sequence
\* sp, which is what fv receives and what disposeAsync is called with.
C38_FactoryWitness ==
  /\ scope.fn = "usingAsync" /\ scope.pc = "done"
  /\ scope.instance = "f" /\ scope.functor = "fv"
  /\ scope.given = "sp"
  /\ calls[1].args = <<"sp">>
  /\ scope.result.kind = "fulfilled"

====
